---------------------------- MODULE Spec2Model ----------------------------
(***************************************************************************)
(* A state-machine model of the FORTH virtual machine of src/src/main.py   *)
(* (class ForthVM and its host loop).                                      *)
(*                                                                         *)
(* Text is modelled character by character: a string is a sequence of      *)
(* one-character strings.  Python's None is the empty tuple <<>> and an    *)
(* integer n stored in a slot that may also hold None is the 1-tuple <<n>>.*)
(* Python lists indexed from 0 are functions on 0..size-1; the dictionary  *)
(* (a growing list) is a sequence, entry k of Python being element k+1.    *)
(*                                                                         *)
(* The methods of ForthVM are operators from a VM record (the fields of    *)
(* self) to a VM record.    An uncaught Python exception is recorded in    *)
(* the field exc; the handler that raised it stops there.                  *)
(***************************************************************************)
EXTENDS Integers, Sequences, FiniteSets, TLC

(***************************************************************************)
(* Memory configuration (ForthVM.__init__).                                *)
(***************************************************************************)
STACK_SIZE == 64
RETURN_STACK_SIZE == 32
DICT_SIZE == 128
MAX_CODE_SIZE == 1024

(***************************************************************************)
(* Bounds of the model.                                                    *)
(***************************************************************************)
\* Lines the host submits in one run.
MaxLines == 3
\* Nested Python calls of execute before the interpreter raises
\* RecursionError (CPython's default limit is 1000; a smaller limit gives
\* the same outcome sooner).
RecursionLimit == 4

None == <<>>

Some(n) == <<n>>

\* The Python value held by a slot that is known not to be None.
Val(cell) == cell[1]

(***************************************************************************)
(* Characters.                                                             *)
(***************************************************************************)
LowerCase == <<"a","b","c","d","e","f","g","h","i","j","k","l","m",
               "n","o","p","q","r","s","t","u","v","w","x","y","z">>

UpperCase == <<"A","B","C","D","E","F","G","H","I","J","K","L","M",
               "N","O","P","Q","R","S","T","U","V","W","X","Y","Z">>

DecDigits == <<"0","1","2","3","4","5","6","7","8","9">>

\* str.isspace() on one character (the ASCII white space).
isspace(c) == c \in {" ", "\t", "\n", "\r"}

\* str.upper() on each ASCII lower-case letter.
UpperOf == [c \in {LowerCase[k] : k \in 1..26} |->
               UpperCase[CHOOSE k \in 1..26 : LowerCase[k] = c]]

\* str.upper() on one character (ASCII letters).
UpperChar(c) == IF c \in DOMAIN UpperOf THEN UpperOf[c] ELSE c

\* str.upper()
upper(s) == [k \in 1..Len(s) |-> UpperChar(s[k])]

\* The value of a digit in base 10 or 16, -1 for any other character.
DigitValue(c, base) ==
    IF \E k \in 1..10 : DecDigits[k] = c
    THEN (CHOOSE k \in 1..10 : DecDigits[k] = c) - 1
    ELSE IF base = 16 /\ \E k \in 1..6 : UpperCase[k] = UpperChar(c)
         THEN 9 + (CHOOSE k \in 1..6 : UpperCase[k] = UpperChar(c))
         ELSE -1

\* s[from..] (Python slice s[from-1:]).
Tail_(s, from) == SubSeq(s, from, Len(s))

\* s.startswith('0x') or s.startswith('0X')
HasHexPrefix(s) == Len(s) >= 2 /\ s[1] = "0" /\ s[2] \in {"x", "X"}

\* Whether int() accepts `d` as the digits of a literal in `base`: digits,
\* with single underscores between them (and, after a base prefix, one
\* underscore in front).
ValidDigits(d, base, afterPrefix) ==
    /\ Len(d) >= 1
    /\ \A k \in 1..Len(d) : d[k] = "_" \/ DigitValue(d[k], base) >= 0
    /\ d[Len(d)] # "_"
    /\ afterPrefix \/ d[1] # "_"
    /\ \A k \in 1..(Len(d) - 1) : ~(d[k] = "_" /\ d[k + 1] = "_")

RECURSIVE DigitsValue(_, _, _)
\* The number the digits d denote in `base`, given the value acc of the
\* digits read so far.
DigitsValue(d, base, acc) ==
    IF d = <<>> THEN acc
    ELSE IF d[1] = "_" THEN DigitsValue(Tail(d), base, acc)
    ELSE DigitsValue(Tail(d), base, acc * base + DigitValue(d[1], base))

\* Whether int(s) raises no ValueError (decimal, optional sign).
IntOk(s) ==
    IF Len(s) >= 1 /\ s[1] \in {"-", "+"}
    THEN ValidDigits(Tail(s), 10, FALSE)
    ELSE ValidDigits(s, 10, FALSE)

\* int(s)
IntValue(s) ==
    IF s[1] = "-" THEN 0 - DigitsValue(Tail(s), 10, 0)
    ELSE IF s[1] = "+" THEN DigitsValue(Tail(s), 10, 0)
    ELSE DigitsValue(s, 10, 0)

\* Whether int(s, 16) raises no ValueError, for s with a 0x prefix.
HexOk(s) == ValidDigits(Tail_(s, 3), 16, TRUE)

\* int(s, 16), for s with a 0x prefix.
HexValue(s) == DigitsValue(Tail_(s, 3), 16, 0)

\* ForthVM.is_number
is_number(s) ==
    IF s = <<>> THEN FALSE
    ELSE IF HasHexPrefix(s) THEN HexOk(s)
    ELSE IntOk(s)


\* The printable ASCII characters, code 32 (space) to 126 (~), in order
\* (code 96, the grave accent, cannot be written in a string here and is
\* held by a name no character equals).
Ascii == <<" ","!","\"","#","$","%","&","'","(",")","*","+",",","-",".","/",
           "0","1","2","3","4","5","6","7","8","9",":",";","<","=",">","?",
           "@","A","B","C","D","E","F","G","H","I","J","K","L","M","N","O",
           "P","Q","R","S","T","U","V","W","X","Y","Z","[","\\","]","^","_",
           "grave","a","b","c","d","e","f","g","h","i","j","k","l","m","n","o",
           "p","q","r","s","t","u","v","w","x","y","z","{","|","}","~">>

\* ord() of one character.
ord(c) ==
    IF c = "\t" THEN 9
    ELSE IF c = "\n" THEN 10
    ELSE IF c = "\r" THEN 13
    ELSE 31 + (CHOOSE k \in 1..95 : Ascii[k] = c)

(***************************************************************************)
(* Python integer arithmetic on cells.                                     *)
(***************************************************************************)
\* 2^16
TwoTo16 == 65536

\* value & 0xFFFF if value >= 0 else value | 0xFFFF0000 (push, rpush),
\* for value >= -2^32: a negative value keeps its low 16 bits and has all
\* higher bits set.
Enforce16(value) ==
    IF value >= 0 THEN value % TwoTo16 ELSE (value % TwoTo16) - TwoTo16

\* Enforce16(a * b), computed without forming the product (which exceeds
\* 32 bits for large cells).
Enforce16Product(a, b) ==
    LET x == a % TwoTo16
        y == b % TwoTo16
        low == (((((x \div 256) * y) % 256) * 256) + ((x % 256) * y)) % TwoTo16
        negative == (a < 0 /\ b > 0) \/ (a > 0 /\ b < 0)
    IN  IF negative THEN low - TwoTo16 ELSE low

\* a // b (floor division), b # 0
FloorDiv(a, b) == IF b > 0 THEN a \div b ELSE (0 - a) \div (0 - b)

\* a % b (the sign of the result is that of b), b # 0
PyMod(a, b) == a - b * FloorDiv(a, b)

RECURSIVE BitOp(_, _, _, _)
\* Bitwise op ("and", "or", "xor") of the non-negative x and y, on n bits.
BitOp(op, x, y, n) ==
    IF n = 0 THEN 0
    ELSE LET p == x % 2
             q == y % 2
             bit == CASE op = "and" -> IF p = 1 /\ q = 1 THEN 1 ELSE 0
                      [] op = "or" -> IF p = 1 \/ q = 1 THEN 1 ELSE 0
                      [] OTHER -> IF p # q THEN 1 ELSE 0
         IN  bit + 2 * BitOp(op, x \div 2, y \div 2, n - 1)

\* a & b, a | b, a ^ b on Python integers in [-2^17, 2^17): the operation
\* on the 18-bit two's-complement patterns, read back as a signed value.
PyBitOp(op, a, b) ==
    LET m == 262144
        r == BitOp(op, a % m, b % m, 18)
    IN  IF r >= 131072 THEN r - m ELSE r

(***************************************************************************)
(* Output and errors.                                                      *)
(***************************************************************************)
\* print(...): what is written is kept as one item, a kind and its data.
print(S, kind, data) == [S EXCEPT !.out = Append(S.out, <<kind, data>>)]

\* An uncaught exception leaves the method that raised it.
raise(S, exception) == [S EXCEPT !.exc = Some(exception)]

\* A variant of _error that halts the VM in interpret state as well.
_error_always_halts(S, message) ==
    [print([S EXCEPT !.last_error = message], "Error", message)
        EXCEPT !.running = FALSE]

\* ForthVM._error
_error(S, message) ==
    LET S1 == print([S EXCEPT !.last_error = message], "Error", message)
    IN  IF S1.compiling THEN [S1 EXCEPT !.running = FALSE] ELSE S1

(***************************************************************************)
(* Stack operations.  A method that returns a value gives a record         *)
(* [vm, ret]: the VM after the call and the value returned.                *)
(***************************************************************************)
\* A variant of push without the test for a full stack.
push_unchecked(S, value) ==
    IF value = None THEN raise(S, "TypeError")
    ELSE [S EXCEPT !.stack[S.sp] = Enforce16(Val(value)), !.sp = S.sp + 1]

\* ForthVM.push; value is None or Some(n)
push(S, value) ==
    IF S.sp >= STACK_SIZE THEN _error(S, <<"Stack overflow">>)
    ELSE IF value = None THEN raise(S, "TypeError")
    ELSE [S EXCEPT !.stack[S.sp] = Enforce16(Val(value)), !.sp = S.sp + 1]

\* ForthVM.pop
pop(S) ==
    IF S.sp <= 0
    THEN [vm |-> _error(S, <<"Stack underflow">>), ret |-> 0]
    ELSE [vm |-> [S EXCEPT !.sp = S.sp - 1], ret |-> S.stack[S.sp - 1]]

\* ForthVM.rpush; value is None or Some(n)
rpush(S, value) ==
    IF S.rsp >= RETURN_STACK_SIZE THEN _error(S, <<"Return stack overflow">>)
    ELSE IF value = None THEN raise(S, "TypeError")
    ELSE [S EXCEPT !.return_stack[S.rsp] = Enforce16(Val(value)),
                   !.rsp = S.rsp + 1]

\* ForthVM.rpop
rpop(S) ==
    IF S.rsp <= 0
    THEN [vm |-> _error(S, <<"Return stack underflow">>), ret |-> 0]
    ELSE [vm |-> [S EXCEPT !.rsp = S.rsp - 1],
          ret |-> S.return_stack[S.rsp - 1]]

(***************************************************************************)
(* Word handling.                                                          *)
(***************************************************************************)
\* A variant of find_word that returns the oldest entry named `name`.
find_word_oldest(S, name) ==
    LET hits == {k \in 1..Len(S.dictionary) :
                    upper(S.dictionary[k].name) = upper(name)}
    IN  IF hits = {} THEN -1
        ELSE (CHOOSE k \in hits : \A j \in hits : k <= j) - 1

\* ForthVM.find_word: the Python index of the newest entry named `name`,
\* letter case ignored, or -1.
find_word(S, name) ==
    LET hits == {k \in 1..Len(S.dictionary) :
                    upper(S.dictionary[k].name) = upper(name)}
    IN  IF hits = {} THEN -1
        ELSE (CHOOSE k \in hits : \A j \in hits : j <= k) - 1

\* ForthVM.add_primitive; func names the lambda registered.
add_primitive(S, name, func, immediate) ==
    IF Len(S.dictionary) >= DICT_SIZE THEN _error(S, <<"Dictionary full">>)
    ELSE [S EXCEPT !.dictionary = Append(S.dictionary,
            [name |-> name, immediate |-> immediate, func |-> func,
             code_ptr |-> 0, is_primitive |-> TRUE])]

\* A variant of create_word without the test for a full dictionary.
create_word_unchecked(S, name) ==
    [vm |-> [S EXCEPT !.dictionary = Append(S.dictionary,
                [name |-> name, immediate |-> FALSE, func |-> "",
                 code_ptr |-> S.code_idx, is_primitive |-> FALSE])],
     ret |-> Len(S.dictionary)]

\* ForthVM.create_word
create_word(S, name) ==
    IF Len(S.dictionary) >= DICT_SIZE
    THEN [vm |-> _error(S, <<"Dictionary full">>), ret |-> -1]
    ELSE [vm |-> [S EXCEPT !.dictionary = Append(S.dictionary,
                    [name |-> name, immediate |-> FALSE, func |-> "",
                     code_ptr |-> S.code_idx, is_primitive |-> FALSE])],
          ret |-> Len(S.dictionary)]

\* A variant of add_to_definition that leaves the cursor where it was.
add_to_definition_in_place(S, value) ==
    IF S.code_idx >= MAX_CODE_SIZE THEN _error(S, <<"Code space full">>)
    ELSE [S EXCEPT !.code_space[S.code_idx] = value]

\* ForthVM.add_to_definition; value is None or Some(n)
add_to_definition(S, value) ==
    IF S.code_idx >= MAX_CODE_SIZE THEN _error(S, <<"Code space full">>)
    ELSE [S EXCEPT !.code_space[S.code_idx] = value,
                   !.code_idx = S.code_idx + 1]

(***************************************************************************)
(* Parser.                                                                 *)
(***************************************************************************)
\* The first position at or after pos (0-based) that is the end of buf or
\* holds a character whose isspace() is `space`.
Scan(buf, pos, space) ==
    IF pos >= Len(buf) THEN pos
    ELSE CHOOSE p \in pos..Len(buf) :
            /\ p = Len(buf) \/ isspace(buf[p + 1]) = space
            /\ \A q \in pos..(p - 1) : isspace(buf[q + 1]) # space

\* ForthVM.parse_word: ret is the next word, None at the end of the input.
parse_word(S) ==
    LET start == Scan(S.input_buffer, S.input_pos, FALSE)
        stop == Scan(S.input_buffer, start, TRUE)
    IN  IF start >= Len(S.input_buffer)
        THEN [vm |-> [S EXCEPT !.input_pos = start], ret |-> None]
        ELSE [vm |-> [S EXCEPT !.input_pos = stop],
              ret |-> SubSeq(S.input_buffer, start + 1, stop)]

\* A variant of parse_number that does not clamp the value.
parse_number_unclamped(s) ==
    IF HasHexPrefix(s) THEN HexValue(s) ELSE IntValue(s)

\* ForthVM.parse_number, for a string is_number accepts (the ValueError
\* branch is then dead): the value clamped to the signed 16-bit range.
parse_number(s) ==
    LET value == IF HasHexPrefix(s) THEN HexValue(s) ELSE IntValue(s)
    IN  IF value > 32767 THEN 32767
        ELSE IF value < -32768 THEN -32768
        ELSE value


(***************************************************************************)
(* The names the code looks up, as strings of characters.                  *)
(***************************************************************************)
N_EXIT == <<"E","X","I","T">>

N_0BRANCH == <<"0","B","R","A","N","C","H">>

N_BRANCH == <<"B","R","A","N","C","H">>

N_EMIT == <<"E","M","I","T">>


(***************************************************************************)
(* Implementation of the primitive words.                                  *)
(***************************************************************************)
\* Whether list[idx] exists for a Python list of `size` elements.
IndexOk(idx, size) == 0 - size <= idx /\ idx < size

\* The position list[idx] denotes (a negative idx counts from the end).
Index(idx, size) == IF idx < 0 THEN idx + size ELSE idx

\* lambda vm: vm.push(vm.stack[vm.sp-1] if vm.sp > 0 else vm._error(...))
prim_DUP(S) ==
    IF S.sp > 0 THEN push(S, Some(S.stack[S.sp - 1]))
    ELSE push(_error(S, <<"Stack underflow">>), None)

\* lambda vm: vm.pop()
prim_DROP(S) == pop(S).vm

\* ForthVM._swap
_swap(S) ==
    IF S.sp < 2 THEN _error(S, <<"Stack underflow">>)
    ELSE [S EXCEPT !.stack = [@ EXCEPT ![S.sp - 1] = S.stack[S.sp - 2],
                                       ![S.sp - 2] = S.stack[S.sp - 1]]]

\* ForthVM._over
_over(S) ==
    IF S.sp < 2 THEN _error(S, <<"Stack underflow">>)
    ELSE push(S, Some(S.stack[S.sp - 2]))

\* ForthVM._rot
_rot(S) ==
    IF S.sp < 3 THEN _error(S, <<"Stack underflow">>)
    ELSE [S EXCEPT !.stack = [@ EXCEPT ![S.sp - 3] = S.stack[S.sp - 2],
                                       ![S.sp - 2] = S.stack[S.sp - 1],
                                       ![S.sp - 1] = S.stack[S.sp - 3]]]

\* lambda vm: vm.rpush(vm.pop())
prim_to_r(S) == LET p == pop(S) IN rpush(p.vm, Some(p.ret))

\* lambda vm: vm.push(vm.rpop())
prim_r_from(S) == LET p == rpop(S) IN push(p.vm, Some(p.ret))

\* lambda vm: vm.push(vm.return_stack[vm.rsp-1] if vm.rsp > 0 else ...)
prim_r_fetch(S) ==
    IF S.rsp > 0 THEN push(S, Some(S.return_stack[S.rsp - 1]))
    ELSE push(_error(S, <<"Return stack underflow">>), None)

\* lambda vm: vm.push(vm.pop() + vm.pop() if vm.sp >= 2 else vm._error(...))
prim_plus(S) ==
    IF S.sp >= 2
    THEN LET p == pop(S)
             q == pop(p.vm)
         IN  push(q.vm, Some(p.ret + q.ret))
    ELSE push(_error(S, <<"Stack underflow">>), None)

\* ForthVM._sub
_sub(S) ==
    IF S.sp < 2 THEN _error(S, <<"Stack underflow">>)
    ELSE LET b == pop(S)
             a == pop(b.vm)
         IN  push(a.vm, Some(a.ret - b.ret))

\* lambda vm: vm.push(vm.pop() * vm.pop() if vm.sp >= 2 else vm._error(...))
\* (push enforces 16 bits on the product; Enforce16 leaves the enforced
\* product as it is)
prim_star(S) ==
    IF S.sp >= 2
    THEN LET p == pop(S)
             q == pop(p.vm)
         IN  push(q.vm, Some(Enforce16Product(p.ret, q.ret)))
    ELSE push(_error(S, <<"Stack underflow">>), None)

\* A variant of _div that pops the dividend as well before it pushes the 0.
_div_drops_dividend(S) ==
    IF S.sp < 2 THEN _error(S, <<"Stack underflow">>)
    ELSE LET b == pop(S)
             a == pop(b.vm)
         IN  IF b.ret = 0
             THEN push(_error(a.vm, <<"Division by zero">>), Some(0))
             ELSE push(a.vm, Some(FloorDiv(a.ret, b.ret)))

\* ForthVM._div
_div(S) ==
    IF S.sp < 2 THEN _error(S, <<"Stack underflow">>)
    ELSE LET b == pop(S)
         IN  IF b.ret = 0
             THEN push(_error(b.vm, <<"Division by zero">>), Some(0))
             ELSE LET a == pop(b.vm)
                  IN  push(a.vm, Some(FloorDiv(a.ret, b.ret)))

\* ForthVM._mod
_mod(S) ==
    IF S.sp < 2 THEN _error(S, <<"Stack underflow">>)
    ELSE LET b == pop(S)
         IN  IF b.ret = 0
             THEN push(_error(b.vm, <<"Division by zero">>), Some(0))
             ELSE LET a == pop(b.vm)
                  IN  push(a.vm, Some(PyMod(a.ret, b.ret)))

\* lambda vm: vm.push(vm.pop() & vm.pop())
prim_AND(S) ==
    LET p == pop(S)
        q == pop(p.vm)
    IN  push(q.vm, Some(PyBitOp("and", p.ret, q.ret)))

\* lambda vm: vm.push(vm.pop() | vm.pop())
prim_OR(S) ==
    LET p == pop(S)
        q == pop(p.vm)
    IN  push(q.vm, Some(PyBitOp("or", p.ret, q.ret)))

\* lambda vm: vm.push(vm.pop() ^ vm.pop())
prim_XOR(S) ==
    LET p == pop(S)
        q == pop(p.vm)
    IN  push(q.vm, Some(PyBitOp("xor", p.ret, q.ret)))

\* lambda vm: vm.push(~vm.pop() & 0xFFFF); ~x is -x-1
prim_NOT(S) ==
    LET p == pop(S) IN push(p.vm, Some((0 - p.ret - 1) % TwoTo16))

\* The comparison `a op b` of Python.
Holds(op, a, b) ==
    CASE op = "==" -> a = b
      [] op = "!=" -> a # b
      [] op = "<" -> a < b
      [] op = ">" -> a > b
      [] op = "<=" -> a <= b
      [] op = ">=" -> a >= b

\* What _equals .. _greater_equal share: op is the comparison of the second
\* cell a with the top cell b.
Compare(S, op) ==
    IF S.sp < 2 THEN _error(S, <<"Stack underflow">>)
    ELSE LET b == pop(S)
             a == pop(b.vm)
         IN  push(a.vm, Some(IF Holds(op, a.ret, b.ret) THEN -1 ELSE 0))

\* ForthVM._equals
_equals(S) == Compare(S, "==")

\* ForthVM._not_equals
_not_equals(S) == Compare(S, "!=")

\* ForthVM._less_than
_less_than(S) == Compare(S, "<")

\* ForthVM._greater_than
_greater_than(S) == Compare(S, ">")

\* ForthVM._less_equal
_less_equal(S) == Compare(S, "<=")

\* ForthVM._greater_equal
_greater_equal(S) == Compare(S, ">=")

\* ForthVM._emit; chr() raises ValueError outside 0..0x10FFFF
_emit(S) ==
    IF S.sp < 1 THEN _error(S, <<"Stack underflow">>)
    ELSE LET char == pop(S)
         IN  IF char.ret < 0 \/ char.ret > 1114111
             THEN raise(char.vm, "ValueError")
             ELSE print(char.vm, "chr", <<char.ret>>)

\* lambda vm: print()
prim_CR(S) == print(S, "newline", <<>>)

\* ForthVM._dot
_dot(S) ==
    IF S.sp < 1 THEN _error(S, <<"Stack underflow">>)
    ELSE LET value == pop(S) IN print(value.vm, "decimal", <<value.ret>>)

\* ForthVM._dot_s
_dot_s(S) == print(S, "stack", [k \in 1..S.sp |-> S.stack[k - 1]])

\* ForthVM._colon
_colon(S) ==
    LET word == parse_word(S)
    IN  IF word.ret = None
        THEN _error(word.vm, <<"Expected word name after ':'">>)
        ELSE LET created == create_word(word.vm, word.ret)
             IN  [created.vm EXCEPT !.current_word = Some(created.ret),
                                    !.compiling = TRUE]

\* ForthVM._exit
_exit(S) == S

\* lambda vm: None (0BRANCH)
prim_0BRANCH(S) == S

\* lambda vm: None (BRANCH)
prim_BRANCH(S) == S

\* ForthVM._print_string
_print_string(S) == S

\* A variant of _semicolon that compiles no call of EXIT.
_semicolon_without_exit(S) ==
    IF ~S.compiling THEN _error(S, <<"';' outside of definition">>)
    ELSE [S EXCEPT !.compiling = FALSE]

\* ForthVM._semicolon
_semicolon(S) ==
    IF ~S.compiling THEN _error(S, <<"';' outside of definition">>)
    ELSE LET exit_idx == find_word(S, N_EXIT)
             S1 == IF exit_idx >= 0 THEN add_to_definition(S, Some(exit_idx))
                   ELSE S
         IN  [S1 EXCEPT !.compiling = FALSE]

\* A variant of _if without the test of compiling.
_if_unchecked(S) ==
    LET branch_instr == find_word(S, N_0BRANCH)
    IN  IF branch_instr < 0 THEN _error(S, <<"0BRANCH word not found">>)
        ELSE LET S1 == add_to_definition(S, Some(branch_instr))
                 branch_idx == S1.code_idx
                 S2 == add_to_definition(S1, None)
             IN  rpush(S2, Some(branch_idx))

\* ForthVM._if
_if(S) ==
    IF ~S.compiling THEN _error(S, <<"'IF' outside of definition">>)
    ELSE LET branch_instr == find_word(S, N_0BRANCH)
         IN  IF branch_instr < 0 THEN _error(S, <<"0BRANCH word not found">>)
             ELSE LET S1 == add_to_definition(S, Some(branch_instr))
                      branch_idx == S1.code_idx
                      S2 == add_to_definition(S1, None)
                  IN  rpush(S2, Some(branch_idx))

\* self.code_space[idx] = value; IndexError when idx is out of range
SetCode(S, idx, value) ==
    IF IndexOk(idx, MAX_CODE_SIZE)
    THEN [S EXCEPT !.code_space[Index(idx, MAX_CODE_SIZE)] = value]
    ELSE raise(S, "IndexError")

\* ForthVM._else
_else(S) ==
    IF ~S.compiling THEN _error(S, <<"'ELSE' outside of definition">>)
    ELSE LET if_branch_idx == rpop(S)
             S0 == if_branch_idx.vm
             branch_instr == find_word(S0, N_BRANCH)
         IN  IF branch_instr < 0 THEN _error(S0, <<"BRANCH word not found">>)
             ELSE LET S1 == add_to_definition(S0, Some(branch_instr))
                      else_branch_idx == S1.code_idx
                      S2 == add_to_definition(S1, None)
                      S3 == SetCode(S2, if_branch_idx.ret, Some(S2.code_idx))
                  IN  IF S3.exc # None THEN S3
                      ELSE rpush(S3, Some(else_branch_idx))

\* A variant of _then that resolves the branch to the cell after the cursor.
_then_past_cursor(S) ==
    IF ~S.compiling THEN _error(S, <<"'THEN' outside of definition">>)
    ELSE LET branch_idx == rpop(S)
         IN  SetCode(branch_idx.vm, branch_idx.ret,
                     Some(branch_idx.vm.code_idx + 1))

\* ForthVM._then
_then(S) ==
    IF ~S.compiling THEN _error(S, <<"'THEN' outside of definition">>)
    ELSE LET branch_idx == rpop(S)
         IN  SetCode(branch_idx.vm, branch_idx.ret,
                     Some(branch_idx.vm.code_idx))

\* ForthVM._do
_do(S) ==
    IF ~S.compiling THEN _error(S, <<"'DO' outside of definition">>)
    ELSE rpush(S, Some(S.code_idx))

\* ForthVM._loop
_loop(S) ==
    IF ~S.compiling THEN _error(S, <<"'LOOP' outside of definition">>)
    ELSE LET start_idx == rpop(S)
         IN  add_to_definition(start_idx.vm, Some(start_idx.ret))

\* ForthVM._i
_i(S) ==
    IF S.rsp < 1 THEN _error(S, <<"Return stack underflow">>)
    ELSE push(S, Some(S.return_stack[S.rsp - 1]))

\* ForthVM._j
_j(S) ==
    IF S.rsp < 3 THEN _error(S, <<"Return stack underflow">>)
    ELSE push(S, Some(S.return_stack[S.rsp - 3]))

RECURSIVE CompileString(_, _, _)
\* The loop of _dot_quote over the characters of string: for each, a
\* literal of its code and a call of EMIT.
CompileString(S, string, emit_idx) ==
    IF string = <<>> THEN S
    ELSE CompileString(
            add_to_definition(
                add_to_definition(S, Some(0 - ord(string[1]) - 1)),
                Some(emit_idx)),
            Tail(string), emit_idx)

\* ForthVM._dot_quote
_dot_quote(S) ==
    LET buf == S.input_buffer
        \* Skip the space after ."
        start == IF S.input_pos < Len(buf) /\ isspace(buf[S.input_pos + 1])
                 THEN S.input_pos + 1 ELSE S.input_pos
        \* Find the closing quote
        quotes == {p \in start..(Len(buf) - 1) : buf[p + 1] = "\""}
        close == IF quotes = {} THEN Len(buf)
                 ELSE CHOOSE p \in quotes : \A q \in quotes : p <= q
        string == SubSeq(buf, start + 1, close)
        S1 == [S EXCEPT !.input_pos = close]
        \* Skip the closing quote
        S2 == [S EXCEPT !.input_pos = close + 1]
    IN  IF close >= Len(buf) THEN _error(S1, <<"Unterminated string">>)
        ELSE IF ~S.compiling THEN print(S2, "string", string)
        ELSE LET emit_idx == find_word(S2, N_EMIT)
             IN  IF emit_idx < 0 THEN _error(S2, <<"EMIT word not found">>)
                 ELSE CompileString(S2, string, emit_idx)

\* func(self), for the function registered under the name func
call_primitive(func, S) ==
    CASE func = "DUP" -> prim_DUP(S)
      [] func = "DROP" -> prim_DROP(S)
      [] func = "SWAP" -> _swap(S)
      [] func = "OVER" -> _over(S)
      [] func = "ROT" -> _rot(S)
      [] func = ">R" -> prim_to_r(S)
      [] func = "R>" -> prim_r_from(S)
      [] func = "R@" -> prim_r_fetch(S)
      [] func = "+" -> prim_plus(S)
      [] func = "-" -> _sub(S)
      [] func = "*" -> prim_star(S)
      [] func = "/" -> _div(S)
      [] func = "MOD" -> _mod(S)
      [] func = "AND" -> prim_AND(S)
      [] func = "OR" -> prim_OR(S)
      [] func = "XOR" -> prim_XOR(S)
      [] func = "NOT" -> prim_NOT(S)
      [] func = "=" -> _equals(S)
      [] func = "<>" -> _not_equals(S)
      [] func = "<" -> _less_than(S)
      [] func = ">" -> _greater_than(S)
      [] func = "<=" -> _less_equal(S)
      [] func = ">=" -> _greater_equal(S)
      [] func = "EMIT" -> _emit(S)
      [] func = "CR" -> prim_CR(S)
      [] func = "." -> _dot(S)
      [] func = ".S" -> _dot_s(S)
      [] func = ":" -> _colon(S)
      [] func = ";" -> _semicolon(S)
      [] func = "EXIT" -> _exit(S)
      [] func = "0BRANCH" -> prim_0BRANCH(S)
      [] func = "BRANCH" -> prim_BRANCH(S)
      [] func = "IF" -> _if(S)
      [] func = "ELSE" -> _else(S)
      [] func = "THEN" -> _then(S)
      [] func = "DO" -> _do(S)
      [] func = "LOOP" -> _loop(S)
      [] func = "I" -> _i(S)
      [] func = "J" -> _j(S)
      [] func = ".\"" -> _dot_quote(S)
      [] func = "(\")" -> _print_string(S)

\* The words _init_primitives registers, in order: name, function, immediate.
Primitives == <<
    <<<<"D","U","P">>, "DUP", FALSE>>,
    <<<<"D","R","O","P">>, "DROP", FALSE>>,
    <<<<"S","W","A","P">>, "SWAP", FALSE>>,
    <<<<"O","V","E","R">>, "OVER", FALSE>>,
    <<<<"R","O","T">>, "ROT", FALSE>>,
    <<<<">","R">>, ">R", FALSE>>,
    <<<<"R",">">>, "R>", FALSE>>,
    <<<<"R","@">>, "R@", FALSE>>,
    <<<<"+">>, "+", FALSE>>,
    <<<<"-">>, "-", FALSE>>,
    <<<<"*">>, "*", FALSE>>,
    <<<<"/">>, "/", FALSE>>,
    <<<<"M","O","D">>, "MOD", FALSE>>,
    <<<<"A","N","D">>, "AND", FALSE>>,
    <<<<"O","R">>, "OR", FALSE>>,
    <<<<"X","O","R">>, "XOR", FALSE>>,
    <<<<"N","O","T">>, "NOT", FALSE>>,
    <<<<"=">>, "=", FALSE>>,
    <<<<"<",">">>, "<>", FALSE>>,
    <<<<"<">>, "<", FALSE>>,
    <<<<">">>, ">", FALSE>>,
    <<<<"<","=">>, "<=", FALSE>>,
    <<<<">","=">>, ">=", FALSE>>,
    <<<<"E","M","I","T">>, "EMIT", FALSE>>,
    <<<<"C","R">>, "CR", FALSE>>,
    <<<<".">>, ".", FALSE>>,
    <<<<".","S">>, ".S", FALSE>>,
    <<<<":">>, ":", FALSE>>,
    <<<<";">>, ";", TRUE>>,
    <<<<"E","X","I","T">>, "EXIT", FALSE>>,
    <<<<"0","B","R","A","N","C","H">>, "0BRANCH", FALSE>>,
    <<<<"B","R","A","N","C","H">>, "BRANCH", FALSE>>,
    <<<<"I","F">>, "IF", TRUE>>,
    <<<<"E","L","S","E">>, "ELSE", TRUE>>,
    <<<<"T","H","E","N">>, "THEN", TRUE>>,
    <<<<"D","O">>, "DO", TRUE>>,
    <<<<"L","O","O","P">>, "LOOP", TRUE>>,
    <<<<"I">>, "I", FALSE>>,
    <<<<"J">>, "J", FALSE>>,
    <<<<".","\"">>, ".\"", TRUE>>,
    <<<<"(","\"",")">>, "(\")", FALSE>> >>

RECURSIVE AddPrimitives(_, _)
\* The add_primitive calls of _init_primitives from the k-th on.
AddPrimitives(S, k) ==
    IF k > Len(Primitives) THEN S
    ELSE AddPrimitives(
            add_primitive(S, Primitives[k][1], Primitives[k][2],
                          Primitives[k][3]), k + 1)

\* ForthVM._init_primitives
_init_primitives(S) == AddPrimitives(S, 1)

\* ForthVM.__init__
ForthVM ==
    _init_primitives(
        [stack |-> [k \in 0..(STACK_SIZE - 1) |-> 0],
         sp |-> 0,
         return_stack |-> [k \in 0..(RETURN_STACK_SIZE - 1) |-> 0],
         rsp |-> 0,
         dictionary |-> <<>>,
         code_space |-> [k \in 0..(MAX_CODE_SIZE - 1) |-> Some(0)],
         code_idx |-> 0,
         running |-> TRUE,
         compiling |-> FALSE,
         current_word |-> None,
         input_buffer |-> <<>>,
         input_pos |-> 0,
         last_error |-> None,
         out |-> <<>>,
         exc |-> None])


(***************************************************************************)
(* The state.                                                              *)
(*                                                                         *)
(* The fields of the ForthVM object; out and exc (what the current call of *)
(* interpret has printed, and the exception that ended it, if any); the    *)
(* position of the thread of control: pc, the local variable word of       *)
(* interpret, and frames, the active calls of execute on user words, each  *)
(* with its parameter word_idx and its local variable i; and history       *)
(* variables, which no operation of the program reads: lines_read (the     *)
(* calls of interpret so far), origin (for each cell emitted so far, what  *)
(* emitted it), fetched (what the fetch loop did last) and control (the    *)
(* IF, ELSE and THEN read in the definition being compiled).               *)
(***************************************************************************)
VARIABLES stack, sp, return_stack, rsp, dictionary, code_space, code_idx,
          running, compiling, current_word, input_buffer, input_pos,
          last_error, out, exc,
          pc, word, frames,
          lines_read, origin, fetched, control

vm_vars == <<stack, sp, return_stack, rsp, dictionary, code_space, code_idx,
             running, compiling, current_word, input_buffer, input_pos,
             last_error, out, exc>>

vars == <<vm_vars, pc, word, frames, lines_read, origin, fetched, control>>

\* The ForthVM object in the current state.
self ==
    [stack |-> stack, sp |-> sp, return_stack |-> return_stack, rsp |-> rsp,
     dictionary |-> dictionary, code_space |-> code_space,
     code_idx |-> code_idx, running |-> running, compiling |-> compiling,
     current_word |-> current_word, input_buffer |-> input_buffer,
     input_pos |-> input_pos, last_error |-> last_error, out |-> out,
     exc |-> exc]

\* The ForthVM object is S in the next state.
Becomes(S) ==
    /\ stack' = S.stack
    /\ sp' = S.sp
    /\ return_stack' = S.return_stack
    /\ rsp' = S.rsp
    /\ dictionary' = S.dictionary
    /\ code_space' = S.code_space
    /\ code_idx' = S.code_idx
    /\ running' = S.running
    /\ compiling' = S.compiling
    /\ current_word' = S.current_word
    /\ input_buffer' = S.input_buffer
    /\ input_pos' = S.input_pos
    /\ last_error' = S.last_error
    /\ out' = S.out
    /\ exc' = S.exc

\* History: the k-th cell an immediate word emits is tagged with what it is.
TagOf(func, k) ==
    CASE func = ";" /\ k = 1 -> <<"exit", 0>>
      [] func = "IF" /\ k = 1 -> <<"0branch", 0>>
      [] func = "IF" /\ k = 2 -> <<"hole", 0>>
      [] func = "ELSE" /\ k = 1 -> <<"branch", 0>>
      [] func = "ELSE" /\ k = 2 -> <<"hole", 0>>
      [] func = "LOOP" /\ k = 1 -> <<"loop", 0>>
      [] func = ".\"" /\ k % 2 = 1 -> <<"chr", 0>>
      [] func = ".\"" /\ k % 2 = 0 -> <<"emit", 0>>
      [] OTHER -> <<"run", 0>>

\* History: the cells emitted on the way to S get their tags: <<kind, data>>
\* for a compiled call or literal, and what TagOf says for the cells that
\* the executed word `data` emitted.
Emitted(S, kind, data) ==
    origin' = origin \o [k \in 1..(S.code_idx - code_idx) |->
                            IF kind = "executed" THEN TagOf(data, k)
                            ELSE <<kind, data>>]

\* History: the control structure of the definition being compiled, as it
\* reads when the immediate word func is met with the cursor at `cursor`:
\* open lists the operand cells not yet resolved, innermost last; resolved
\* pairs each resolved operand cell with the offset it is to hold.  IF
\* opens the cell after its 0BRANCH; ELSE resolves the innermost open cell
\* to the offset after its own BRANCH and operand, and opens that operand;
\* THEN resolves the innermost open cell to the cursor.
Structure(func, cursor) ==
    LET n == Len(control.open)
        inner == control.open[n]
        outer == SubSeq(control.open, 1, n - 1)
    IN  CASE func = ":" -> [open |-> <<>>, resolved |-> {}]
          [] func = "IF" ->
               [control EXCEPT !.open = Append(@, cursor + 1)]
          [] func = "ELSE" /\ n > 0 ->
               [open |-> Append(outer, cursor + 1),
                resolved |-> control.resolved \cup {<<inner, cursor + 2>>}]
          [] func = "THEN" /\ n > 0 ->
               [open |-> outer,
                resolved |-> control.resolved \cup {<<inner, cursor>>}]
          [] OTHER -> control

\* The state after forth = ForthVM().
Init ==
    /\ stack = ForthVM.stack
    /\ sp = ForthVM.sp
    /\ return_stack = ForthVM.return_stack
    /\ rsp = ForthVM.rsp
    /\ dictionary = ForthVM.dictionary
    /\ code_space = ForthVM.code_space
    /\ code_idx = ForthVM.code_idx
    /\ running = ForthVM.running
    /\ compiling = ForthVM.compiling
    /\ current_word = ForthVM.current_word
    /\ input_buffer = ForthVM.input_buffer
    /\ input_pos = ForthVM.input_pos
    /\ last_error = ForthVM.last_error
    /\ out = ForthVM.out
    /\ exc = ForthVM.exc
    /\ pc = "idle"
    /\ word = None
    /\ frames = <<>>
    /\ lines_read = 0
    /\ origin = <<>>
    /\ fetched = None
    /\ control = [open |-> <<>>, resolved |-> {}]

(***************************************************************************)
(* The outer interpreter (ForthVM.interpret).                              *)
(***************************************************************************)
\* interpret is left at once, the VM being S: an exception propagates out of
\* execute and interpret to the caller, or the loop of interpret breaks.
Propagate(S) ==
    /\ Becomes(S)
    /\ pc' = "idle"
    /\ word' = None
    /\ frames' = <<>>

\* The end of the loop body of interpret, the VM being S:
\* word = self.parse_word(), and back to the test of the loop.
NextWord(S) ==
    IF S.exc # None THEN Propagate(S)
    ELSE LET next == parse_word(S)
         IN  /\ Becomes(next.vm)
             /\ pc' = "interpret"
             /\ word' = next.ret
             /\ frames' = <<>>

\* interpret(input_str) is called (by main, or as the tests do), up to its
\* first parse_word.
interpret(input_str) ==
    /\ pc = "idle"
    /\ lines_read' = lines_read + 1
    /\ NextWord([self EXCEPT !.input_buffer = input_str, !.input_pos = 0,
                             !.out = <<>>, !.exc = None])
    /\ fetched' = None
    /\ UNCHANGED <<origin, control>>

\* One pass through the body of `while word and self.running`, for a word
\* that is compiled, is a number, is unknown or names a primitive: the whole
\* body.  For a user word: up to the start of the fetch loop of execute.
interpret_loop ==
    /\ pc = "interpret"
    /\ word # None /\ running
    /\ LET word_idx == find_word(self, word)
       IN  IF word_idx >= 0
           THEN LET word_entry == dictionary[word_idx + 1]
                IN  IF compiling /\ ~word_entry.immediate
                    THEN LET S == add_to_definition(self, Some(word_idx))
                         IN  /\ NextWord(S)
                             /\ Emitted(S, "call", word_idx)
                             /\ UNCHANGED control
                    ELSE IF word_entry.is_primitive
                    THEN LET S == call_primitive(word_entry.func, self)
                         IN  /\ NextWord(S)
                             /\ Emitted(S, "executed", word_entry.func)
                             /\ control' = IF compiling \/ word_entry.func = ":"
                                           THEN Structure(word_entry.func,
                                                          code_idx)
                                           ELSE control
                    ELSE /\ pc' = "execute"
                         /\ frames' = <<[word_idx |-> word_idx,
                                         i |-> word_entry.code_ptr]>>
                         /\ UNCHANGED <<vm_vars, word, origin, control>>
           ELSE IF is_number(word)
           THEN LET num == parse_number(word)
                    S == IF compiling
                         THEN add_to_definition(self, Some(0 - num - 1))
                         ELSE push(self, Some(num))
                IN  /\ NextWord(S)
                    /\ Emitted(S, "lit", num)
                    /\ UNCHANGED control
           ELSE \* break: the loop is left and interpret returns
                /\ Propagate(_error(self, <<"Unknown word: ", word>>))
                /\ UNCHANGED <<origin, control>>
    /\ fetched' = None
    /\ UNCHANGED lines_read

\* The test of `while word and self.running` fails: interpret returns.
interpret_return ==
    /\ pc = "interpret"
    /\ ~(word # None /\ running)
    /\ pc' = "idle"
    /\ word' = None
    /\ UNCHANGED <<vm_vars, frames, lines_read, origin, fetched, control>>

(***************************************************************************)
(* The inner interpreter (ForthVM.execute on a user word).                 *)
(***************************************************************************)
\* How the fetch loop decodes the cell instr.
Decode(S, instr) ==
    IF instr = None THEN "skip"
    ELSE IF Val(instr) < 0 THEN "literal"
    ELSE IF Val(instr) = find_word(S, N_0BRANCH) THEN "0branch"
    ELSE IF Val(instr) = find_word(S, N_BRANCH) THEN "branch"
    ELSE "call"

\* The innermost call of execute goes on with i = next, the VM being S.
Continue(S, next) ==
    IF S.exc # None THEN Propagate(S)
    ELSE /\ Becomes(S)
         /\ frames' = [frames EXCEPT ![Len(frames)].i = next]
         /\ UNCHANGED <<pc, word>>

\* i = self.code_space[at], the VM being S.  An i that is None fails the
\* next test of the loop (TypeError).
Branch(S, at) ==
    IF ~IndexOk(at, MAX_CODE_SIZE) THEN Propagate(raise(S, "IndexError"))
    ELSE LET target == S.code_space[Index(at, MAX_CODE_SIZE)]
         IN  IF target = None THEN Propagate(raise(S, "TypeError"))
             ELSE Continue(S, Val(target))

\* self.execute(instr) inside the fetch loop, the loop going on at `next`.
Call(instr, next) ==
    IF instr >= Len(dictionary)
    THEN Continue(_error(self, <<"Invalid word index">>), next)
    ELSE LET entry == dictionary[instr + 1]
         IN  IF entry.is_primitive
             THEN Continue(call_primitive(entry.func, self), next)
             ELSE IF Len(frames) >= RecursionLimit
             THEN Propagate(raise(self, "RecursionError"))
             ELSE /\ frames' = Append([frames EXCEPT ![Len(frames)].i = next],
                                      [word_idx |-> instr, i |-> entry.code_ptr])
                  /\ UNCHANGED <<vm_vars, pc, word>>

\* One pass through the body of `while i < self.code_idx and self.running`
\* of the innermost call of execute.
execute_fetch ==
    /\ pc = "execute"
    /\ LET i == frames[Len(frames)].i
       IN  /\ i < code_idx /\ running
           /\ IF ~IndexOk(i, MAX_CODE_SIZE)
              THEN /\ Propagate(raise(self, "IndexError"))
                   /\ fetched' = Some([at |-> i, kind |-> "error"])
              ELSE LET instr == code_space[Index(i, MAX_CODE_SIZE)]
                       kind == Decode(self, instr)
                   IN  /\ fetched' = Some([at |-> i, kind |-> kind])
                       /\ CASE kind = "skip" -> Continue(self, i + 1)
                            [] kind = "literal" ->
                                 Continue(push(self, Some(0 - Val(instr) - 1)),
                                          i + 1)
                            [] kind = "0branch" ->
                                 LET condition == pop(self)
                                 IN  IF condition.ret = 0
                                     THEN Branch(condition.vm, i + 1)
                                     ELSE Continue(condition.vm, i + 2)
                            [] kind = "branch" -> Branch(self, i + 1)
                            [] kind = "call" -> Call(Val(instr), i + 1)
    /\ origin' = origin \o [k \in 1..(code_idx' - code_idx) |-> <<"run", 0>>]
    /\ UNCHANGED <<lines_read, control>>

\* The test of the fetch loop fails: the innermost call of execute returns,
\* to the fetch loop that called it or to the end of the loop body of
\* interpret.
execute_return ==
    /\ pc = "execute"
    /\ LET i == frames[Len(frames)].i IN ~(i < code_idx /\ running)
    /\ IF Len(frames) = 1 THEN NextWord(self)
       ELSE /\ frames' = SubSeq(frames, 1, Len(frames) - 1)
            /\ UNCHANGED <<vm_vars, pc, word>>
    /\ UNCHANGED <<lines_read, origin, fetched, control>>

\* Everything but a call of interpret.
Run ==
    \/ interpret_loop
    \/ interpret_return
    \/ execute_fetch
    \/ execute_return


(***************************************************************************)
(* Input lines.                                                            *)
(***************************************************************************)
RECURSIVE Line(_)
\* The words of `words`, one space between them.
Line(words) ==
    IF words = <<>> THEN <<>>
    ELSE IF Len(words) = 1 THEN words[1]
    ELSE words[1] \o <<" ">> \o Line(Tail(words))

\* ": name body ;"
Definition(name, body) == Line(<<<<":">>, name>> \o body \o <<<<";">>>>)

\* The lines the host may submit next when it submits at most n lines in
\* one run.
UpTo(n, lines) == IF lines_read < n THEN lines ELSE {}

\* All sequences of at most n elements of S.
SeqsUpTo(S, n) == UNION {[1..k -> S] : k \in 0..n}

(***************************************************************************)
(* Definitions and calls of user words A and B whose bodies are numbers    *)
(* and calls of user words.                                                *)
(***************************************************************************)
\* Words in the body of a definition.
MaxBody == 1

WordLines ==
    {Definition(name, body) :
        name \in {<<"A">>, <<"B">>},
        body \in SeqsUpTo({<<"1">>, <<"2">>, <<"-","1">>, <<"A">>, <<"B">>},
                          MaxBody)}
    \cup {<<"A">>, <<"B">>, Line(<<<<":">>, <<"A">>>>)}

NextWords == (\E line \in UpTo(MaxLines, WordLines) : interpret(line)) \/ Run

SpecWords == Init /\ [][NextWords]_vars


(***************************************************************************)
(* What the history says of the definitions compiled so far.               *)
(***************************************************************************)
\* The Python indices of the user entries of the dictionary.
UserWords == {k \in 0..(Len(dictionary) - 1) : ~dictionary[k + 1].is_primitive}

\* The tag of the cell at offset p (emitted: 0 <= p < code_idx).
Tag(p) == origin[p + 1][1]

\* The offset just after the EXIT that `;` compiled at the end of the
\* definition of user word w: the end of w's own instructions (the cursor,
\* while the definition has no `;` yet).
EndOf(w) ==
    LET body == dictionary[w + 1].code_ptr
        exits == {p \in body..(code_idx - 1) : Tag(p) = "exit"}
    IN  IF exits = {} THEN code_idx
        ELSE 1 + CHOOSE p \in exits : \A q \in exits : p <= q

\* The offsets of the cells of the definition of user word w.
CellsOf(w) == dictionary[w + 1].code_ptr..(EndOf(w) - 1)

(***************************************************************************)
(* C1.  Executing a user word W runs only the instructions of W's own      *)
(* definition: no call of execute on W moves its instruction pointer i     *)
(* past the EXIT that `;` compiled at the end of W (there it returns to    *)
(* its caller), so that words defined after W do not change what W does.   *)
(***************************************************************************)
C1_RunsOnlyOwnDefinition ==
    \A k \in 1..Len(frames) : frames[k].i <= EndOf(frames[k].word_idx)

(***************************************************************************)
(* C2.  Nested calls return: when no user word calls itself and no         *)
(* definition holds a backward branch, the calls of execute on user words  *)
(* never nest deeper than there are user words, and never exhaust the      *)
(* interpreter's recursion limit.                                          *)
(***************************************************************************)
\* No compiled call in the definition of a user word is a call of that word.
NoSelfCall ==
    \A w \in UserWords :
        \A p \in CellsOf(w) : Tag(p) = "call" => code_space[p] # Some(w)

\* No cell emitted by LOOP, and every branch operand points forward.
NoBackwardBranch ==
    \A p \in 0..(code_idx - 1) :
        /\ Tag(p) # "loop"
        /\ Tag(p) = "hole" /\ code_space[p] # None => Val(code_space[p]) > p

C2_NestedCallsReturn ==
    (NoSelfCall /\ NoBackwardBranch) =>
        /\ Len(frames) <= Cardinality(UserWords)
        /\ exc # Some("RecursionError")

(***************************************************************************)
(* C3.  Compiled literals round-trip: whenever the fetch loop has fetched  *)
(* a cell that was compiled from a numeric token n, it decoded the cell as *)
(* a literal, and (unless the data stack was full) n is on top of the data *)
(* stack.                                                                  *)
(***************************************************************************)
C3_LiteralRoundTrip ==
    fetched # None =>
        LET at == Val(fetched).at
        IN  (at \in 0..(code_idx - 1) /\ Tag(at) = "lit") =>
                /\ Val(fetched).kind = "literal"
                /\ sp < STACK_SIZE => sp >= 1 /\ stack[sp - 1] = origin[at + 1][2]

(***************************************************************************)
(* C6.  A name is not exposed until `;`: while a definition is being       *)
(* compiled (also once an error has abandoned it), looking up its name     *)
(* does not find the entry being defined.                                  *)
(***************************************************************************)
C6_NameHiddenUntilSemicolon ==
    (compiling /\ current_word # None /\ Val(current_word) >= 0) =>
        find_word(self, dictionary[Val(current_word) + 1].name)
            # Val(current_word)


(***************************************************************************)
(* Numbers and primitives in interpret state: lines of one or two numbers, *)
(* lines of one primitive, and a user word that adds a compiled literal.   *)
(***************************************************************************)
\* The primitives with a documented data-stack effect (n -> m).
StackEffect(func) ==
    CASE func \in {"DUP"} -> <<1, 2>>
      [] func \in {"DROP", ">R", "EMIT", "."} -> <<1, 0>>
      [] func \in {"SWAP"} -> <<2, 2>>
      [] func \in {"OVER"} -> <<2, 3>>
      [] func \in {"ROT"} -> <<3, 3>>
      [] func \in {"NOT"} -> <<1, 1>>
      [] func \in {"+", "-", "*", "/", "MOD", "AND", "OR", "XOR",
                   "=", "<>", "<", ">", "<=", ">="} -> <<2, 1>>

StackPrimitives ==
    {"DUP", "DROP", "SWAP", "OVER", "ROT", ">R", "+", "-", "*", "/", "MOD",
     "AND", "OR", "XOR", "NOT", "=", "<>", "<", ">", "<=", ">=", "EMIT", "."}

PrimNumbers == {<<"0">>, <<"1">>, <<"3","2","7","6","7">>}

PrimLines ==
    PrimNumbers
    \cup {Line(<<a, b>>) : a \in PrimNumbers, b \in PrimNumbers}
    \cup {Primitives[k][1] :
            k \in {j \in 1..Len(Primitives) :
                      Primitives[j][2] \in StackPrimitives}}
    \cup {Definition(<<"A">>, <<<<"1">>, <<"+">>>>), <<"A">>}

NextPrims == (\E line \in UpTo(MaxLines, PrimLines) : interpret(line)) \/ Run

SpecPrims == Init /\ [][NextPrims]_vars

(***************************************************************************)
(* C4.  Cell-width invariant: every live cell of the data stack (index     *)
(* below sp) and of the return stack (index below rsp) holds an integer    *)
(* in [-32768, 32767].                                                     *)
(***************************************************************************)
C4_CellWidth ==
    /\ \A k \in 0..(sp - 1) : stack[k] \in -32768..32767
    /\ \A k \in 0..(rsp - 1) : return_stack[k] \in -32768..32767

(***************************************************************************)
(* C5.  Stack bounds per primitive: a primitive P with documented effect   *)
(* (n -> m), executed in interpret state with at least n cells on the data *)
(* stack (room for the result, divisor non-zero) changes the depth by      *)
(* m - n; executed with fewer than n cells it records "Stack underflow"    *)
(* and leaves the depths of the data stack and the return stack unchanged. *)
(***************************************************************************)
\* The outer interpreter is about to execute the primitive func.
Executes(func) ==
    /\ pc = "interpret" /\ word # None /\ running /\ ~compiling
    /\ LET word_idx == find_word(self, word)
       IN  /\ word_idx >= 0
           /\ dictionary[word_idx + 1].is_primitive
           /\ dictionary[word_idx + 1].func = func

C5_StackEffectStep ==
    \A func \in StackPrimitives :
        Executes(func) =>
            LET n == StackEffect(func)[1]
                m == StackEffect(func)[2]
            IN  IF sp >= n
                THEN (/\ sp - n + m <= STACK_SIZE
                      /\ rsp < RETURN_STACK_SIZE
                      /\ func \in {"/", "MOD"} => stack[sp - 1] # 0)
                        => sp' = sp + m - n
                ELSE /\ last_error' = <<"Stack underflow">>
                     /\ sp' = sp
                     /\ rsp' = rsp

C5_StackEffect == [][C5_StackEffectStep]_vars


(***************************************************************************)
(* Lines with errors: an unknown word, a stack underflow, a division by    *)
(* zero, a misplaced control word, in interpret state, in a definition and *)
(* in a user word that is executed; each followed by a further token.      *)
(***************************************************************************)
ErrorLines ==
    {Line(<<<<"F","O","O">>, <<"1">>>>),
     Line(<<<<"D","R","O","P">>, <<"1">>>>),
     Line(<<<<"1">>, <<"0">>, <<"/">>, <<"5">>>>),
     Line(<<<<"I","F">>, <<"5">>>>),
     Line(<<<<"D","U","P">>, <<"5">>>>),
     Line(<<<<":">>, <<"A">>, <<"F","O","O">>>>),
     Definition(<<"A">>, <<<<"D","R","O","P">>>>),
     Line(<<<<"A">>, <<"1">>>>),
     Line(<<<<"1">>, <<"2">>>>)}

NextErrors ==
    (\E line \in UpTo(MaxLines, ErrorLines) : interpret(line)) \/ Run

SpecErrors == Init /\ [][NextErrors]_vars

\* The current call of interpret has printed an error message.
HasError(o) == \E k \in 1..Len(o) : o[k][1] = "Error"

\* The dictionary or the code space is exhausted.
CapacityExhausted ==
    Len(dictionary) >= DICT_SIZE \/ code_idx >= MAX_CODE_SIZE

(***************************************************************************)
(* C7.  No error other than dictionary or code-space exhaustion is fatal   *)
(* across lines: when a call of interpret has a token to process and no    *)
(* error has occurred on its line, the VM is running, so that the token is *)
(* processed, whatever errors earlier lines had.                           *)
(***************************************************************************)
C7_NextLineProcessed ==
    (pc = "interpret" /\ word # None /\ ~HasError(out) /\ ~CapacityExhausted)
        => running

(***************************************************************************)
(* C8 as stated.  An error raised in interpret state abandons the current  *)
(* line: once an error has been recorded on a line while compiling is      *)
(* false, the loop of interpret has no later token of that line to         *)
(* process; and running stays true.                                        *)
(***************************************************************************)
C8_ErrorAbandonsLine ==
    /\ ~(pc = "interpret" /\ word # None /\ running /\ HasError(out))
    /\ ~compiling => running

(***************************************************************************)
(* C8 amended.  In interpret state only an unknown word abandons the       *)
(* current line: interpret returns at once, no later token is read, and    *)
(* the stacks are as they were; after any other token, unless a host       *)
(* exception leaves interpret, the line goes on.  No step taken while      *)
(* compiling is false clears running.                                      *)
(***************************************************************************)
C8_InterpretStateStep ==
    /\ (~compiling /\ running) => running'
    /\ (pc = "interpret" /\ word # None /\ running /\ ~compiling) =>
          IF find_word(self, word) < 0 /\ ~is_number(word)
          THEN /\ pc' = "idle"
               /\ last_error' = <<"Unknown word: ", word>>
               /\ HasError(out')
               /\ input_pos' = input_pos
               /\ <<stack, sp, return_stack, rsp>>'
                      = <<stack, sp, return_stack, rsp>>
          ELSE exc' = None => pc' # "idle"

C8_OnlyUnknownWordAbandonsLine == [][C8_InterpretStateStep]_vars

\* An unknown word has abandoned a line that had a further token; the data
\* stack still holds what an earlier line left on it, and the VM is running.
C8_Witness ==
    /\ pc = "idle" /\ exc = None /\ ~compiling /\ running
    /\ last_error # None /\ last_error[1] = "Unknown word: "
    /\ input_pos < Len(input_buffer)
    /\ sp >= 1


(***************************************************************************)
(* A definition of W typed one word a line, with IF, ELSE, THEN and a      *)
(* number in its body, and calls of W.  Control words are typed inside a   *)
(* definition only.                                                        *)
(***************************************************************************)
\* Lines the host submits in one run of this family.
MaxControlLines == 7

ControlLines ==
    IF compiling
    THEN {<<"I","F">>, <<"E","L","S","E">>, <<"T","H","E","N">>, <<"1">>,
          <<";">>}
    ELSE {Line(<<<<":">>, <<"W">>>>), Line(<<<<"0">>, <<"W">>>>)}

NextControl ==
    (\E line \in UpTo(MaxControlLines, ControlLines) : interpret(line)) \/ Run

SpecControl == Init /\ [][NextControl]_vars

(***************************************************************************)
(* C9.  Branch patching: at the step that completes a definition, every    *)
(* operand cell that IF or ELSE opened and ELSE or THEN resolved holds the *)
(* offset it was resolved to: for IF ... THEN the cursor at THEN; for      *)
(* IF ... ELSE ... THEN the 0BRANCH operand holds the offset just after    *)
(* the operand of the BRANCH of ELSE, and that operand the cursor at THEN; *)
(* each ELSE and THEN resolving the innermost open cell.                   *)
(***************************************************************************)
C9_PatchedAtCompletion ==
    (compiling /\ ~compiling') =>
        \A r \in control.resolved :
            /\ Tag(r[1]) = "hole"
            /\ code_space'[r[1]] = Some(r[2])

C9_BranchPatching == [][C9_PatchedAtCompletion]_vars

\* A completed definition with an IF ... ELSE ... THEN nested in an
\* IF ... THEN: three operand cells resolved, to three different offsets.
C9_Witness ==
    /\ ~compiling /\ running /\ control.open = <<>>
    /\ Cardinality(control.resolved) >= 3
    /\ Cardinality({r[2] : r \in control.resolved}) >= 3
    /\ \A r \in control.resolved : code_space[r[1]] = Some(r[2])


(***************************************************************************)
(* Definitions of W with IF ... THEN and IF ... ELSE ... THEN, calls of W  *)
(* with a zero and a non-zero flag, and a user word named 0BRANCH.         *)
(***************************************************************************)
ConditionalLines ==
    {Definition(<<"W">>, <<<<"I","F">>, <<"1">>, <<"T","H","E","N">>>>),
     Definition(<<"W">>, <<<<"I","F">>, <<"1">>, <<"E","L","S","E">>,
                           <<"2">>, <<"T","H","E","N">>>>),
     Definition(N_0BRANCH, <<>>),
     Line(<<<<"0">>, <<"W">>>>),
     Line(<<<<"5">>, <<"W">>>>)}

NextConditional ==
    (\E line \in UpTo(MaxLines, ConditionalLines) : interpret(line)) \/ Run

SpecConditional == Init /\ [][NextConditional]_vars

(***************************************************************************)
(* C10.  Run-time conditional: the fetch loop never fetches the operand    *)
(* cell of a branch as an instruction; fetching the 0BRANCH that IF        *)
(* compiled, with a cell on the data stack, it pops exactly that cell f    *)
(* and goes on at the operand's target when f is zero, at the cell after   *)
(* the operand otherwise; fetching the BRANCH that ELSE compiled it goes   *)
(* on at the operand's target, the data stack as it was.                   *)
(***************************************************************************)
C10_ConditionalStep ==
    (pc = "execute" /\ running /\ frames[Len(frames)].i < code_idx) =>
        LET i == frames[Len(frames)].i
            operand == code_space[i + 1]
            next == frames'[Len(frames')].i
        IN  /\ Tag(i) # "hole"
            /\ (Tag(i) = "0branch" /\ sp >= 1 /\ operand # None) =>
                  /\ sp' = sp - 1
                  /\ Len(frames') = Len(frames)
                  /\ next = IF stack[sp - 1] = 0 THEN Val(operand) ELSE i + 2
            /\ (Tag(i) = "branch" /\ operand # None) =>
                  /\ sp' = sp
                  /\ Len(frames') = Len(frames)
                  /\ next = Val(operand)

C10_RunTimeConditional == [][C10_ConditionalStep]_vars


(***************************************************************************)
(* Definitions of W with DO ... LOOP, and calls of W.                      *)
(***************************************************************************)
LoopLines ==
    {Definition(<<"W">>, <<<<"7">>, <<"D","O">>, <<"8">>, <<"L","O","O","P">>>>),
     Definition(<<"W">>, <<<<"D","O">>, <<"1">>, <<"L","O","O","P">>>>),
     <<"W">>,
     <<"1">>}

NextLoop == (\E line \in UpTo(MaxLines, LoopLines) : interpret(line)) \/ Run

SpecLoop == Init /\ [][NextLoop]_vars

(***************************************************************************)
(* C11.  LOOP produces an unconditional jump back: when the fetch loop     *)
(* fetches the cell that LOOP compiled, it does not execute it as a call   *)
(* of a dictionary entry; it goes on at the offset the cell holds (the     *)
(* cursor at DO, the loop-top), both stacks as they were.                  *)
(***************************************************************************)
C11_LoopStep ==
    (pc = "execute" /\ running /\ frames[Len(frames)].i < code_idx
        /\ Tag(frames[Len(frames)].i) = "loop") =>
        LET i == frames[Len(frames)].i
        IN  /\ Val(fetched').kind # "call"
            /\ Len(frames') = Len(frames)
            /\ frames'[Len(frames')].i = Val(code_space[i])
            /\ <<stack, sp, return_stack, rsp>>'
                   = <<stack, sp, return_stack, rsp>>

C11_LoopJumpsBack == [][C11_LoopStep]_vars


(***************************************************************************)
(* C12.  The last-error value is cleared by the next successful line: when *)
(* a call of interpret has processed its whole line without any error,     *)
(* last_error is empty (None), whatever error an earlier line recorded.    *)
(***************************************************************************)
\* The last call of interpret has returned after it processed its whole
\* line, with no error message and no exception.
LineSucceeded ==
    /\ pc = "idle" /\ lines_read >= 1
    /\ running /\ exc = None /\ ~HasError(out)
    /\ parse_word(self).ret = None

C12_LastErrorCleared == LineSucceeded => last_error = None


(***************************************************************************)
(* Compile-only words typed outside a definition, with cells on both       *)
(* stacks, and a user word whose only cell is executed as a call of IF.    *)
(***************************************************************************)
MisplacedLines ==
    {<<";">>, <<"I","F">>, <<"E","L","S","E">>, <<"T","H","E","N">>,
     <<"D","O">>, <<"L","O","O","P">>,
     <<"1">>,
     Line(<<<<"2">>, <<">","R">>>>),
     Definition(<<"A">>, <<<<"-","3","3">>>>),
     <<"A">>}

NextMisplaced ==
    (\E line \in UpTo(MaxLines, MisplacedLines) : interpret(line)) \/ Run

SpecMisplaced == Init /\ [][NextMisplaced]_vars

\* The words that compile control structure, and the message of each when
\* it is met outside a definition.
CompileOnly == {";", "IF", "ELSE", "THEN", "DO", "LOOP"}

MisplacedMessage(func) ==
    CASE func = ";" -> <<"';' outside of definition">>
      [] func = "IF" -> <<"'IF' outside of definition">>
      [] func = "ELSE" -> <<"'ELSE' outside of definition">>
      [] func = "THEN" -> <<"'THEN' outside of definition">>
      [] func = "DO" -> <<"'DO' outside of definition">>
      [] func = "LOOP" -> <<"'LOOP' outside of definition">>

\* The fetch loop is about to execute the primitive func.
FetchExecutes(func) ==
    /\ pc = "execute" /\ running /\ frames[Len(frames)].i < code_idx
    /\ IndexOk(frames[Len(frames)].i, MAX_CODE_SIZE)
    /\ LET instr == code_space[Index(frames[Len(frames)].i, MAX_CODE_SIZE)]
       IN  /\ Decode(self, instr) = "call"
           /\ Val(instr) < Len(dictionary)
           /\ dictionary[Val(instr) + 1].is_primitive
           /\ dictionary[Val(instr) + 1].func = func

(***************************************************************************)
(* C13.  Compile-only words outside a definition: executing `;`, IF, ELSE, *)
(* THEN, DO or LOOP while compiling is false records the word's error and  *)
(* changes nothing else: data stack, return stack, code space, cursor,     *)
(* dictionary, compiling and running are unchanged.                        *)
(***************************************************************************)
C13_MisplacedStep ==
    \A func \in CompileOnly :
        (~compiling /\ (Executes(func) \/ FetchExecutes(func))) =>
            /\ last_error' = MisplacedMessage(func)
            /\ HasError(out')
            /\ <<stack, sp, return_stack, rsp, code_space, code_idx,
                 dictionary, compiling, running>>'
                   = <<stack, sp, return_stack, rsp, code_space, code_idx,
                       dictionary, compiling, running>>

C13_MisplacedChangesNothing == [][C13_MisplacedStep]_vars

\* A compile-only word has just been refused outside a definition, with
\* cells on the data stack and on the return stack.
C13_Witness ==
    /\ ~compiling /\ running /\ sp >= 1 /\ rsp >= 1 /\ code_idx = 0
    /\ last_error \in {MisplacedMessage(func) : func \in CompileOnly}
    /\ HasError(out)


(***************************************************************************)
(* Definitions left open at a THEN, ELSE or LOOP that has no opener, after *)
(* a completed definition, and a call of that definition.                  *)
(***************************************************************************)
UnbalancedLines ==
    {Definition(<<"A">>, <<<<"1">>, <<"2">>>>),
     Line(<<<<":">>, <<"W">>, <<"T","H","E","N">>>>),
     Line(<<<<":">>, <<"W">>, <<"E","L","S","E">>>>),
     Line(<<<<":">>, <<"W">>, <<"L","O","O","P">>>>),
     Line(<<<<":">>, <<"W">>, <<"I","F">>, <<"T","H","E","N">>, <<";">>>>),
     <<"A">>}

NextUnbalanced ==
    (\E line \in UpTo(MaxLines, UnbalancedLines) : interpret(line)) \/ Run

SpecUnbalanced == Init /\ [][NextUnbalanced]_vars

\* The outer interpreter, compiling, is about to execute the immediate
\* primitive func.
ExecutesImmediate(func) ==
    /\ pc = "interpret" /\ word # None /\ running /\ compiling
    /\ LET word_idx == find_word(self, word)
       IN  /\ word_idx >= 0
           /\ dictionary[word_idx + 1].is_primitive
           /\ dictionary[word_idx + 1].immediate
           /\ dictionary[word_idx + 1].func = func

(***************************************************************************)
(* C14.  Unbalanced control flow is an error, not corruption: THEN, ELSE   *)
(* or LOOP executed in compile state while the return stack is empty       *)
(* records an error, overwrites no code-space cell and emits no cell (the  *)
(* cursor and the code space are unchanged).                               *)
(***************************************************************************)
C14_UnbalancedStep ==
    \A func \in {"THEN", "ELSE", "LOOP"} :
        (ExecutesImmediate(func) /\ rsp = 0) =>
            /\ HasError(out')
            /\ last_error' # None
            /\ code_idx' = code_idx
            /\ code_space' = code_space

C14_UnbalancedNoCorruption == [][C14_UnbalancedStep]_vars


(***************************************************************************)
(* Divisions with a zero and a non-zero divisor, typed and in a user word. *)
(***************************************************************************)
DivisionLines ==
    {Line(<<<<"5">>, <<"0">>>>), <<"0">>, <<"7">>, <<"/">>, <<"M","O","D">>,
     Definition(<<"A">>, <<<<"/">>>>), <<"A">>}

NextDivision ==
    (\E line \in UpTo(MaxLines, DivisionLines) : interpret(line)) \/ Run

SpecDivision == Init /\ [][NextDivision]_vars

(***************************************************************************)
(* C15.  Division by zero: `/` or MOD executed with at least two cells on  *)
(* the data stack and a zero on top records "Division by zero" and pushes  *)
(* one 0 in place of the popped divisor: the depth is as before, the top   *)
(* is 0 and every cell beneath, the dividend included, is as it was.       *)
(***************************************************************************)
C15_DivisionStep ==
    \A func \in {"/", "MOD"} :
        ((Executes(func) \/ FetchExecutes(func))
            /\ sp >= 2 /\ stack[sp - 1] = 0) =>
            /\ last_error' = <<"Division by zero">>
            /\ HasError(out')
            /\ sp' = sp
            /\ stack'[sp - 1] = 0
            /\ \A k \in 0..(sp - 2) : stack'[k] = stack[k]

C15_DivisionByZero == [][C15_DivisionStep]_vars

\* From a fresh VM, `5 0 /` (or MOD) has left 5 0 and the error.
C15_Witness ==
    /\ pc = "idle" /\ last_error = <<"Division by zero">> /\ HasError(out)
    /\ sp = 2 /\ stack[0] = 5 /\ stack[1] = 0


(***************************************************************************)
(* Numeric tokens in interpret state: after lines that push or drop a      *)
(* cell, one line holding a decimal token (with or without a leading `-`)  *)
(* or a hexadecimal token (prefix 0x or 0X).                               *)
(***************************************************************************)
\* Digits in a token.
MaxDigits == 6

\* All sequences of 1 to n elements of S.
Digits(S, n) == UNION {[1..k -> S] : k \in 1..n}

DecimalTokens ==
    {sign \o d : sign \in {<<>>, <<"-">>},
                 d \in Digits({"0", "1", "9"}, MaxDigits)}

HexTokens ==
    {<<"0", x>> \o d : x \in {"x", "X"},
                       d \in Digits({"8", "F", "f"}, MaxDigits)}

NumberLines ==
    IF lines_read < MaxLines - 1
    THEN {<<"7">>, <<"D","R","O","P">>}
    ELSE DecimalTokens \cup HexTokens

\* No user word is called in these runs.
NextNumbers ==
    \/ \E line \in UpTo(MaxLines, NumberLines) : interpret(line)
    \/ interpret_loop
    \/ interpret_return

SpecNumbers == Init /\ [][NextNumbers]_vars

\* A decimal token: digits, after an optional `-`.
IsDecimalToken(w) ==
    LET d == IF w # <<>> /\ w[1] = "-" THEN Tail(w) ELSE w
    IN  d # <<>> /\ \A k \in 1..Len(d) : d[k] \in {DecDigits[j] : j \in 1..10}

\* A hexadecimal token: hexadecimal digits after 0x or 0X.
IsHexToken(w) ==
    /\ Len(w) >= 3 /\ w[1] = "0" /\ w[2] \in {"x", "X"}
    /\ \A k \in 3..Len(w) :
          w[k] \in {DecDigits[j] : j \in 1..10}
                   \cup {"a","b","c","d","e","f","A","B","C","D","E","F"}

\* The value of one decimal or hexadecimal digit.
DigitOf(c) ==
    CASE c \in {"a", "A"} -> 10
      [] c \in {"b", "B"} -> 11
      [] c \in {"c", "C"} -> 12
      [] c \in {"d", "D"} -> 13
      [] c \in {"e", "E"} -> 14
      [] c \in {"f", "F"} -> 15
      [] OTHER -> (CHOOSE j \in 1..10 : DecDigits[j] = c) - 1

RECURSIVE Positional(_, _)
\* The integer the digits d denote in `base`: the last digit counts units.
Positional(d, base) ==
    IF d = <<>> THEN 0
    ELSE DigitOf(d[Len(d)]) + base * Positional(SubSeq(d, 1, Len(d) - 1), base)

\* The integer a decimal or hexadecimal token denotes.
Denotes(w) ==
    IF IsHexToken(w) THEN Positional(SubSeq(w, 3, Len(w)), 16)
    ELSE IF w[1] = "-" THEN 0 - Positional(Tail(w), 10)
    ELSE Positional(w, 10)

\* min(32767, max(-32768, v))
Saturated(v) == IF v > 32767 THEN 32767 ELSE IF v < -32768 THEN -32768 ELSE v

(***************************************************************************)
(* C16.  Saturating number parsing: a decimal or 0x/0X hexadecimal token   *)
(* denoting v that names no dictionary entry, interpreted in interpret     *)
(* state with room on the data stack, pushes exactly one cell, equal to    *)
(* min(32767, max(-32768, v)), leaves the cells beneath as they were and   *)
(* records no error.                                                       *)
(***************************************************************************)
C16_NumberStep ==
    (/\ pc = "interpret" /\ word # None /\ running /\ ~compiling
     /\ IsDecimalToken(word) \/ IsHexToken(word)
     /\ find_word(self, word) < 0
     /\ sp < STACK_SIZE) =>
        /\ sp' = sp + 1
        /\ stack'[sp] = Saturated(Denotes(word))
        /\ \A k \in 0..(sp - 1) : stack'[k] = stack[k]
        /\ out' = out /\ last_error' = last_error /\ exc' = None

C16_SaturatingNumbers == [][C16_NumberStep]_vars

\* The token 100000 has pushed 32767 on top of a cell pushed before it.
C16_Witness ==
    /\ pc = "idle" /\ input_buffer = <<"1","0","0","0","0","0">>
    /\ sp = 2 /\ stack[1] = 32767 /\ stack[0] = 7
    /\ ~HasError(out)


(***************************************************************************)
(* Comparisons of cells made by typed numbers and by NOT and +, typed and  *)
(* in a user word.                                                         *)
(***************************************************************************)
Comparisons == {"=", "<>", "<", ">", "<=", ">="}

CompareLines ==
    {Line(<<<<"0">>, <<"N","O","T">>>>), <<"-","1">>, <<"1">>,
     Line(<<<<"3","2","7","6","7">>, <<"1">>, <<"+">>>>),
     Definition(<<"A">>, <<<<"=">>>>), <<"A">>}
    \cup {Primitives[k][1] :
            k \in {j \in 1..Len(Primitives) :
                      Primitives[j][2] \in Comparisons}}

NextCompare ==
    (\E line \in UpTo(MaxLines, CompareLines) : interpret(line)) \/ Run

SpecCompare == Init /\ [][NextCompare]_vars

\* A cell read as a 16-bit two's-complement signed value.
Signed(x) == ((x + 32768) % TwoTo16) - 32768

\* The relation a comparison word tests.
Relation(func, a, b) ==
    CASE func = "=" -> a = b
      [] func = "<>" -> a # b
      [] func = "<" -> a < b
      [] func = ">" -> a > b
      [] func = "<=" -> a <= b
      [] func = ">=" -> a >= b

(***************************************************************************)
(* C17.  Signed comparisons with canonical booleans: each of = <> < > <=   *)
(* >= executed with cells a (second) and b (top) on the data stack pops    *)
(* both and pushes -1 if the relation holds between a and b read as 16-bit *)
(* two's-complement signed values and 0 otherwise; hence two cells with    *)
(* the same 16-bit pattern compare equal.                                  *)
(***************************************************************************)
C17_CompareStep ==
    \A func \in Comparisons :
        ((Executes(func) \/ FetchExecutes(func)) /\ sp >= 2) =>
            /\ sp' = sp - 1
            /\ stack'[sp - 2] =
                 IF Relation(func, Signed(stack[sp - 2]), Signed(stack[sp - 1]))
                 THEN -1 ELSE 0
            /\ \A k \in 0..(sp - 3) : stack'[k] = stack[k]

C17_SignedComparisons == [][C17_CompareStep]_vars


(***************************************************************************)
(* C18.  Wrapping arithmetic: `+`, `-` and `*` executed with cells a       *)
(* (second) and b (top) on the data stack, each in [-32768, 32767], pop    *)
(* both and push a+b, a-b and a*b reduced modulo 2^16 to the signed range  *)
(* [-32768, 32767] (so `32767 1 +` gives -32768, and a result already in   *)
(* range is exact).                                                        *)
(***************************************************************************)
C18_ArithmeticStep ==
    \A func \in {"+", "-", "*"} :
        ((Executes(func) \/ FetchExecutes(func)) /\ sp >= 2
            /\ stack[sp - 2] \in -32768..32767
            /\ stack[sp - 1] \in -32768..32767) =>
            LET a == stack[sp - 2]
                b == stack[sp - 1]
                exact == CASE func = "+" -> a + b
                           [] func = "-" -> a - b
                           [] func = "*" -> a * b
            IN  /\ sp' = sp - 1
                /\ stack'[sp - 2] = Signed(exact)
                /\ \A k \in 0..(sp - 3) : stack'[k] = stack[k]

C18_WrappingArithmetic == [][C18_ArithmeticStep]_vars


(***************************************************************************)
(* Definitions and redefinitions of names that differ in letter case only, *)
(* of the name of a primitive and of EXIT, on one line and over two lines; *)
(* a `:` without a name; calls of the names, and an undefined name.        *)
(***************************************************************************)
RedefinitionLines ==
    {Definition(<<"A">>, <<<<"1">>>>),
     Definition(<<"a">>, <<<<"2">>>>),
     Definition(<<"d","u","p">>, <<<<"5">>>>),
     Definition(<<"E","X","I","T">>, <<<<"7">>>>),
     Line(<<<<":">>, <<"A">>, <<"1">>>>),
     Line(<<<<"2">>, <<";">>>>),
     <<":">>, <<"A">>, <<"a">>, <<"D","U","P">>, <<"B">>}

NextRedefinition ==
    (\E line \in UpTo(MaxLines, RedefinitionLines) : interpret(line)) \/ Run

SpecRedefinition == Init /\ [][NextRedefinition]_vars

\* Two names are equal when letter case is ignored.
SameIgnoringCase(s, t) ==
    /\ Len(s) = Len(t)
    /\ \A k \in 1..Len(s) :
          \/ s[k] = t[k]
          \/ \E c \in 1..26 : {s[k], t[k]} = {LowerCase[c], UpperCase[c]}

\* The Python indices of the dictionary entries named `name`, case ignored.
EntriesNamed(name) ==
    {k \in 0..(Len(dictionary) - 1) :
        SameIgnoringCase(dictionary[k + 1].name, name)}

(***************************************************************************)
(* C19.  Compilation atomicity.  compiling becomes true only when `:`      *)
(* executes; without an error that step adds exactly one dictionary entry, *)
(* of kind user and not immediate, named by the next token, whose body is  *)
(* the compilation cursor at that step, and writes no cell.  While         *)
(* compiling stays true the dictionary does not change.  compiling becomes *)
(* false only when `;` executes; that step leaves the dictionary as it is  *)
(* and, without an error, writes exactly one cell, a call to the entry     *)
(* that EXIT names.                                                        *)
(***************************************************************************)
C19_DefinitionStep ==
    /\ (~compiling /\ compiling') =>
          /\ Executes(":") \/ FetchExecutes(":")
          /\ (out' = out) =>
                /\ Len(dictionary') = Len(dictionary) + 1
                /\ SubSeq(dictionary', 1, Len(dictionary)) = dictionary
                /\ ~dictionary'[Len(dictionary')].is_primitive
                /\ ~dictionary'[Len(dictionary')].immediate
                /\ dictionary'[Len(dictionary')].code_ptr = code_idx
                /\ dictionary'[Len(dictionary')].name = parse_word(self).ret
                /\ code_idx' = code_idx
                /\ code_space' = code_space
    /\ ((Executes(":") \/ FetchExecutes(":")) /\ out' = out) => compiling'
    /\ (compiling /\ compiling') => dictionary' = dictionary
    /\ ExecutesImmediate(";") => ~compiling'
    /\ (compiling /\ ~compiling') =>
          /\ ExecutesImmediate(";")
          /\ dictionary' = dictionary
          /\ (out' = out) =>
                /\ code_idx' = code_idx + 1
                /\ \A k \in 0..(code_idx - 1) : code_space'[k] = code_space[k]
                /\ code_space'[code_idx] # None
                /\ Val(code_space'[code_idx]) \in EntriesNamed(N_EXIT)

C19_CompilationAtomicity == [][C19_DefinitionStep]_vars

\* Two definitions have been completed without an error, the second over
\* two lines: two user entries, the second with its body at the cursor left
\* by the first, and a call to EXIT in the last cell of each.
C19_Witness ==
    /\ pc = "idle" /\ ~compiling /\ running /\ last_error = None
    /\ Len(dictionary) = Len(Primitives) + 2
    /\ dictionary[Len(dictionary) - 1].code_ptr = 0
    /\ dictionary[Len(dictionary)].code_ptr = 2
    /\ ~dictionary[Len(dictionary)].is_primitive
    /\ code_idx = 5
    /\ code_space[1] = Some(29) /\ code_space[4] = Some(29)

(***************************************************************************)
(* C20.  Lookup shadowing: find_word(name) is the index of the most        *)
(* recently added dictionary entry whose name equals `name` ignoring       *)
(* letter case, and -1 when there is none; interpreting a name whose       *)
(* newest entry is a user word executes that entry: execute starts at its  *)
(* body.                                                                   *)
(***************************************************************************)
ProbedNames ==
    {<<"A">>, <<"a">>, <<"B">>, <<"D","U","P">>, <<"d","u","p">>,
     <<"D","u","p">>, <<"E","X","I","T">>, <<"e","x","i","t">>, <<";">>}

C20_NewestMatch ==
    \A name \in ProbedNames :
        LET found == find_word(self, name)
        IN  IF EntriesNamed(name) = {} THEN found = -1
            ELSE /\ found \in EntriesNamed(name)
                 /\ \A k \in EntriesNamed(name) : k <= found

C20_ExecutesNewestStep ==
    (/\ pc = "interpret" /\ word # None /\ running /\ ~compiling
     /\ EntriesNamed(word) # {}) =>
        LET newest == CHOOSE k \in EntriesNamed(word) :
                          \A j \in EntriesNamed(word) : j <= k
        IN  ~dictionary[newest + 1].is_primitive =>
                /\ pc' = "execute"
                /\ frames' = <<[word_idx |-> newest,
                                i |-> dictionary[newest + 1].code_ptr]>>

C20_LookupShadowing == []C20_NewestMatch /\ [][C20_ExecutesNewestStep]_vars

\* The name A has been defined as A and redefined as a; A is interpreted and
\* execute is at the body of the redefinition.
C20_Witness ==
    /\ pc = "execute" /\ word = <<"A">> /\ Len(frames) = 1
    /\ Cardinality(EntriesNamed(<<"A">>)) = 2
    /\ dictionary[Len(dictionary)].name = <<"a">>
    /\ frames[1].word_idx = Len(dictionary) - 1
    /\ frames[1].i = dictionary[Len(dictionary)].code_ptr
    /\ frames[1].i = 2


(***************************************************************************)
(* Strings printed with `."`: typed in interpret state, compiled into the  *)
(* words G and H, with and without the closing quote, and calls of G.      *)
(***************************************************************************)
StringLines ==
    {<<".","\""," ","h","i","\"">>,
     <<".","\""," ","h","i">>,
     <<":"," ","G"," ",".","\""," ","h","i","\""," ",";">>,
     <<":"," ","H"," ",".","\""," ","y","o","\""," ",";">>,
     <<":"," ","G"," ",".","\""," ","h","i">>,
     <<"G">>}

NextStrings ==
    (\E line \in UpTo(MaxLines, StringLines) : interpret(line)) \/ Run

SpecStrings == Init /\ [][NextStrings]_vars

\* The characters written by the items of o that are characters or strings.
RECURSIVE Text(_)
Text(o) ==
    IF o = <<>> THEN <<>>
    ELSE (CASE o[1][1] = "chr" -> <<Ascii[o[1][2][1] - 31]>>
            [] o[1][1] = "string" -> o[1][2]
            [] OTHER -> <<>>) \o Text(Tail(o))

\* Where the string of a `."` that has just been read starts (0-based),
\* after one white-space character.
QuoteStart ==
    IF input_pos < Len(input_buffer) /\ isspace(input_buffer[input_pos + 1])
    THEN input_pos ELSE input_pos - 1

\* The 1-based positions of the closing quotes after the start.
Quotes == {p \in (QuoteStart + 2)..Len(input_buffer) : input_buffer[p] = "\""}

\* The string up to the first closing quote.
Quoted ==
    SubSeq(input_buffer, QuoteStart + 2,
           (CHOOSE p \in Quotes : \A q \in Quotes : p <= q) - 1)

\* The dictionary entry at Python index idx is a user word whose body is the
\* code `."` compiles for string s, followed by the call of EXIT.
PrintsString(idx, s) ==
    /\ ~dictionary[idx + 1].is_primitive
    /\ LET body == dictionary[idx + 1].code_ptr
       IN  /\ body + 2 * Len(s) < code_idx
           /\ \A k \in 1..Len(s) :
                 /\ code_space[body + 2 * (k - 1)] = Some(0 - ord(s[k]) - 1)
                 /\ code_space[body + 2 * k - 1] = Some(23)
           /\ code_space[body + 2 * Len(s)] = Some(29)

(***************************************************************************)
(* C21.  String printing with `."`.  In compile state `."` followed by a   *)
(* string s and a closing quote emits exactly 2*len(s) cells, for each     *)
(* character in order a literal of its code and a call to EMIT, and prints *)
(* nothing; in interpret state it prints exactly s and leaves the code     *)
(* space and the cursor unchanged; without a closing quote it records      *)
(* "Unterminated string", emits nothing and prints nothing but the error.  *)
(* A line that executes a word so defined for s outputs exactly s.         *)
(***************************************************************************)
C21_DotQuoteStep ==
    /\ (ExecutesImmediate(".\"") /\ Quotes # {}) =>
          /\ code_idx' = code_idx + 2 * Len(Quoted)
          /\ \A k \in 1..Len(Quoted) :
                /\ code_space'[code_idx + 2 * (k - 1)]
                      = Some(0 - ord(Quoted[k]) - 1)
                /\ code_space'[code_idx + 2 * k - 1] = Some(23)
          /\ \A k \in 0..(code_idx - 1) : code_space'[k] = code_space[k]
          /\ out' = out
    /\ (Executes(".\"") /\ Quotes # {}) =>
          /\ out' = Append(out, <<"string", Quoted>>)
          /\ code_idx' = code_idx
          /\ code_space' = code_space
    /\ ((Executes(".\"") \/ ExecutesImmediate(".\"")) /\ Quotes = {}) =>
          /\ last_error' = <<"Unterminated string">>
          /\ out' = Append(out, <<"Error", <<"Unterminated string">>>>)
          /\ code_idx' = code_idx
          /\ code_space' = code_space

C21_WordPrintsString ==
    \A s \in {<<"h","i">>, <<"y","o">>} :
        (/\ pc = "idle" /\ running /\ ~compiling /\ exc = None
         /\ input_buffer = <<"G">>
         /\ find_word(self, <<"G">>) >= 0
         /\ PrintsString(find_word(self, <<"G">>), s)) =>
            Text(out) = s

CompileLines ==
    {Line(<<<<"7">>, <<"7">>, <<">","R">>>>),
     Line(<<<<":">>, <<"W">>, <<"D","U","P">>, <<"-","5">>>>),
     Line(<<<<"0","x","1","F">>, <<"W">>, <<";">>>>),
     Line(<<<<":">>, <<"A">>, <<"I","F">>, <<"4","0","0","0","0">>,
            <<"T","H","E","N">>, <<";">>>>),
     Line(<<<<"d","u","p">>, <<":">>, <<"E","M","I","T">>, <<";">>>>),
     <<"W">>}

NextCompile ==
    (\E line \in UpTo(MaxLines, CompileLines) : interpret(line)) \/ Run

SpecCompile == Init /\ [][NextCompile]_vars

\* The Python index of the newest dictionary entry named `name`.
Newest(name) ==
    CHOOSE k \in EntriesNamed(name) : \A j \in EntriesNamed(name) : j <= k

\* The step appends `cell` to the code space and does nothing else to the
\* stacks, the dictionary and the output.
Appends(cell) ==
    /\ code_idx' = code_idx + 1
    /\ code_space' = [code_space EXCEPT ![code_idx] = cell]
    /\ <<stack, sp, return_stack, rsp, dictionary, out, compiling>>'
          = <<stack, sp, return_stack, rsp, dictionary, out, compiling>>

(***************************************************************************)
(* C22.  Outer-interpreter dispatch while compiling: with compiling true   *)
(* (and room in the code space), a token that names a non-immediate        *)
(* dictionary entry appends exactly one cell, the entry's index; a token   *)
(* that names no entry and is a number appends exactly one cell, the       *)
(* encoded literal -n-1; in both cases the cursor advances by one and the  *)
(* data stack, the return stack, the dictionary and the output are         *)
(* unchanged.  A token that names an immediate entry is executed and not   *)
(* compiled: no call of it is appended, IF pushes the offset of its        *)
(* operand cell on the return stack, THEN pops one and emits nothing, and  *)
(* `;` ends the definition.                                                *)
(***************************************************************************)
C22_CompileStep ==
    (/\ pc = "interpret" /\ word # None /\ running /\ compiling
     /\ code_idx < MAX_CODE_SIZE) =>
        IF EntriesNamed(word) # {}
        THEN IF ~dictionary[Newest(word) + 1].immediate
             THEN Appends(Some(Newest(word)))
             ELSE /\ ~(/\ code_idx' > code_idx
                        /\ code_space'[code_idx] = Some(Newest(word)))
                  /\ dictionary[Newest(word) + 1].func = "IF" =>
                        /\ rsp' = rsp + 1
                        /\ return_stack'[rsp] = code_idx + 1
                  /\ (dictionary[Newest(word) + 1].func = "THEN" /\ rsp > 0)
                        => rsp' = rsp - 1 /\ code_idx' = code_idx
                  /\ dictionary[Newest(word) + 1].func = ";" => ~compiling'
        ELSE (IsDecimalToken(word) \/ IsHexToken(word)) =>
                Appends(Some(0 - Saturated(Denotes(word)) - 1))

C22_CompileDispatch == [][C22_CompileStep]_vars

\* The definition of W has been completed over two lines, with a cell on
\* each stack: a call of DUP, the literals -5 and 31 and a call of W itself
\* were compiled, and `;` was executed.
C22_Witness ==
    /\ pc = "idle" /\ ~compiling /\ running /\ last_error = None
    /\ sp = 1 /\ stack[0] = 7 /\ rsp = 1 /\ return_stack[0] = 7
    /\ code_idx = 5
    /\ code_space[0] = Some(0) /\ code_space[1] = Some(4)
    /\ code_space[2] = Some(-32) /\ code_space[3] = Some(41)
    /\ code_space[4] = Some(29)


(***************************************************************************)
(* Lines that fill and empty the two stacks: a line of FillCount numbers,  *)
(* a line of MoveCount `>R`, a line of DROP and a line of `R>`.            *)
(***************************************************************************)
\* Numbers on the line that fills the data stack.
FillCount == 40

\* `>R` on the line that fills the return stack.
MoveCount == 33

StackLines ==
    {Line([k \in 1..FillCount |-> <<DecDigits[(k % 9) + 2]>>]),
     Line([k \in 1..MoveCount |-> <<">","R">>]),
     Line(<<<<"D","R","O","P">>, <<"D","R","O","P">>>>),
     Line(<<<<"R",">">>, <<"R",">">>>>)}

NextStacks ==
    \/ \E line \in UpTo(MaxLines, StackLines) : interpret(line)
    \/ interpret_loop
    \/ interpret_return

SpecStacks == Init /\ [][NextStacks]_vars

\* Values the host pushes: the ends and the middle of the cell range.
HostValues == {-32768, -1, 0, 1, 32767}

(***************************************************************************)
(* C23.  Stack pointers stay in bounds: 0 <= sp <= 64 and 0 <= rsp <= 32   *)
(* in every reachable state.  A push (rpush) on a full stack records an    *)
(* overflow error and leaves the pointer and all stored cells unchanged; a *)
(* pop (rpop) on an empty stack records an underflow error, returns 0 and  *)
(* leaves the pointer unchanged; otherwise pop returns the cells in the    *)
(* reverse order of the pushes: after pushes of v and then w, the pops     *)
(* return w and then v and leave the stack as it was.                      *)
(***************************************************************************)
C23_StackBounds ==
    /\ sp \in 0..64 /\ rsp \in 0..32
    /\ \A v \in HostValues :
          LET S == push(self, Some(v))
              R == rpush(self, Some(v))
          IN  /\ IF sp = 64
                 THEN /\ S.sp = sp /\ S.stack = stack
                      /\ S.last_error = <<"Stack overflow">>
                      /\ S.out = Append(out, <<"Error", <<"Stack overflow">>>>)
                 ELSE /\ S.sp = sp + 1 /\ S.last_error = last_error
                      /\ pop(S).ret = v /\ pop(S).vm.sp = sp
                      /\ \A k \in 0..(sp - 1) : pop(S).vm.stack[k] = stack[k]
              /\ IF rsp = 32
                 THEN /\ R.rsp = rsp /\ R.return_stack = return_stack
                      /\ R.last_error = <<"Return stack overflow">>
                      /\ R.out = Append(out, <<"Error",
                                               <<"Return stack overflow">>>>)
                 ELSE /\ R.rsp = rsp + 1 /\ R.last_error = last_error
                      /\ rpop(R).ret = v /\ rpop(R).vm.rsp = rsp
                      /\ \A k \in 0..(rsp - 1) :
                            rpop(R).vm.return_stack[k] = return_stack[k]
    /\ \A v, w \in HostValues :
          /\ sp <= 62 =>
                LET S == push(push(self, Some(v)), Some(w))
                IN  /\ pop(S).ret = w
                    /\ pop(pop(S).vm).ret = v
                    /\ pop(pop(S).vm).vm.sp = sp
          /\ rsp <= 30 =>
                LET R == rpush(rpush(self, Some(v)), Some(w))
                IN  /\ rpop(R).ret = w
                    /\ rpop(rpop(R).vm).ret = v
                    /\ rpop(rpop(R).vm).vm.rsp = rsp
    /\ IF sp = 0
       THEN /\ pop(self).ret = 0 /\ pop(self).vm.sp = 0
            /\ pop(self).vm.last_error = <<"Stack underflow">>
       ELSE /\ pop(self).ret = stack[sp - 1] /\ pop(self).vm.sp = sp - 1
            /\ pop(self).vm.last_error = last_error
    /\ IF rsp = 0
       THEN /\ rpop(self).ret = 0 /\ rpop(self).vm.rsp = 0
            /\ rpop(self).vm.last_error = <<"Return stack underflow">>
       ELSE /\ rpop(self).ret = return_stack[rsp - 1]
            /\ rpop(self).vm.rsp = rsp - 1
            /\ rpop(self).vm.last_error = last_error

\* Both stacks have been filled: the data stack overflowed on the second
\* line of numbers, and the return stack is full and has just overflowed.
C23_Witness ==
    /\ pc = "idle" /\ rsp = 32 /\ sp = 64 - MoveCount
    /\ last_error = <<"Return stack overflow">>
    /\ return_stack[0] # return_stack[1]
    /\ lines_read = 3


(***************************************************************************)
(* Lines that fill the dictionary and the code space: a line of            *)
(* DefinitionsPerLine empty definitions, a definition that prints          *)
(* StringsPerLine strings of StringLength characters, and definitions left *)
(* open after a number, a call, an IF or a `;` that meets the end of the   *)
(* code space.                                                             *)
(***************************************************************************)
\* Definitions on the line that fills the dictionary.
DefinitionsPerLine == 44

\* Characters of each string on the line that fills the code space.
StringLength == 15

\* Strings on the line that fills the code space.
StringsPerLine == 17

\* ." x...x" repeated n times, each followed by a space.
RECURSIVE PrintedStrings(_)
PrintedStrings(n) ==
    IF n = 0 THEN <<>>
    ELSE <<".", "\"", " ">> \o [k \in 1..StringLength |-> "x"]
            \o <<"\"", " ">> \o PrintedStrings(n - 1)

GrowthLines ==
    {[k \in 1..(6 * DefinitionsPerLine) |->
          <<":", " ", "A", " ", ";", " ">>[((k - 1) % 6) + 1]],
     <<":", " ", "W", " ">> \o PrintedStrings(StringsPerLine) \o <<";">>,
     Line(<<<<":">>, <<"V">>, <<"1">>, <<"2">>, <<"3">>>>),
     Line(<<<<":">>, <<"V">>, <<"1">>, <<"2">>, <<"D","U","P">>>>),
     Line(<<<<":">>, <<"V">>, <<"1">>, <<"2">>, <<"I","F">>>>),
     Line(<<<<":">>, <<"V">>, <<"1">>, <<"2">>, <<";">>>>)}

NextGrowth ==
    \/ \E line \in UpTo(MaxLines, GrowthLines) : interpret(line)
    \/ interpret_loop
    \/ interpret_return

SpecGrowth == Init /\ [][NextGrowth]_vars

\* The outer interpreter, compiling, is about to emit a cell: the token is
\* a number, names a word that is compiled, or names `;`, IF, ELSE or LOOP.
AboutToEmit ==
    /\ pc = "interpret" /\ word # None /\ running /\ compiling
    /\ IF EntriesNamed(word) = {}
       THEN IsDecimalToken(word) \/ IsHexToken(word)
       ELSE \/ ~dictionary[Newest(word) + 1].immediate
            \/ dictionary[Newest(word) + 1].func \in {";", "IF", "ELSE", "LOOP"}

(***************************************************************************)
(* C24.  Monotonic, bounded growth: the compilation cursor never decreases *)
(* and never exceeds 1024; the dictionary is append-only (no entry is ever *)
(* changed or removed) and never holds more than 128 entries; with the     *)
(* dictionary full a `:` followed by a name records "Dictionary full" and  *)
(* adds no entry; an emit at a full code space records "Code space full"   *)
(* and leaves the cursor and the code space unchanged.                     *)
(***************************************************************************)
C24_Bounded == code_idx \in 0..1024 /\ Len(dictionary) <= 128

C24_GrowthStep ==
    /\ code_idx' >= code_idx
    /\ Len(dictionary') >= Len(dictionary)
    /\ SubSeq(dictionary', 1, Len(dictionary)) = dictionary
    /\ (/\ Len(dictionary) = 128
        /\ Executes(":") \/ FetchExecutes(":")
        /\ parse_word(self).ret # None) =>
            /\ last_error' = <<"Dictionary full">>
            /\ dictionary' = dictionary
    /\ (code_idx = 1024 /\ AboutToEmit) =>
            /\ last_error' = <<"Code space full">>
            /\ code_idx' = code_idx
            /\ code_space' = code_space

C24_MonotonicGrowth == []C24_Bounded /\ [][C24_GrowthStep]_vars

\* The code space has been filled by three definitions, and the emit that
\* met its end was refused.
C24_Witness ==
    /\ code_idx = 1024 /\ last_error = <<"Code space full">>
    /\ Len(dictionary) = Len(Primitives) + 3
    /\ code_space[1023] # None


(***************************************************************************)
(* A completed definition, a cell moved to the return stack in interpret   *)
(* state, and definitions with THEN and ELSE, with and without an IF; a    *)
(* call of the first definition.                                           *)
(***************************************************************************)
CommittedLines ==
    {Definition(<<"A">>, <<<<"1">>, <<"2">>>>),
     Line(<<<<"1">>, <<">","R">>>>),
     Definition(<<"W">>, <<<<"T","H","E","N">>>>),
     Definition(<<"W">>, <<<<"5">>, <<"E","L","S","E">>>>),
     Definition(<<"W">>, <<<<"0">>, <<"I","F">>, <<"5">>, <<"E","L","S","E">>,
                           <<"6">>, <<"T","H","E","N">>>>),
     <<"A">>}

NextCommitted ==
    (\E line \in UpTo(MaxLines, CommittedLines) : interpret(line)) \/ Run

SpecCommitted == Init /\ [][NextCommitted]_vars

\* The offset after the last cell of the completed definitions: the cursor,
\* or the body of the definition being compiled.
CommittedEnd ==
    IF compiling THEN dictionary[Len(dictionary)].code_ptr ELSE code_idx

(***************************************************************************)
(* C25.  Committed definitions are immutable: no step changes a cell of    *)
(* the code space in the range of a definition that `;` has completed; and *)
(* the offset that ELSE or THEN pops from the return stack in compile      *)
(* state is the operand cell that the innermost open IF or ELSE of the     *)
(* definition being compiled pushed, never a value that run-time use left  *)
(* on the return stack.                                                    *)
(***************************************************************************)
C25_CommittedStep ==
    /\ \A p \in 0..(CommittedEnd - 1) : code_space'[p] = code_space[p]
    /\ \A func \in {"ELSE", "THEN"} :
          (ExecutesImmediate(func) /\ rsp > 0) =>
              /\ control.open # <<>>
              /\ return_stack[rsp - 1] = control.open[Len(control.open)]

C25_CommittedImmutable == [][C25_CommittedStep]_vars


(***************************************************************************)
(* Words compiled with a call of DUP and with IF ... ELSE ... THEN, then   *)
(* definitions of user words named DUP, 0BRANCH, BRANCH and EXIT, and      *)
(* calls of the words compiled first.                                      *)
(***************************************************************************)
BindingLines ==
    {Definition(<<"V">>, <<<<"D","U","P">>>>),
     Definition(<<"W">>, <<<<"I","F">>, <<"1">>, <<"E","L","S","E">>,
                           <<"2">>, <<"T","H","E","N">>>>),
     Definition(<<"D","U","P">>, <<<<"9">>>>),
     Definition(N_0BRANCH, <<>>),
     Definition(N_BRANCH, <<>>),
     Definition(N_EXIT, <<>>),
     Line(<<<<"1">>, <<"V">>>>),
     Line(<<<<"0">>, <<"W">>>>),
     Line(<<<<"5">>, <<"W">>>>)}

NextBinding ==
    (\E line \in UpTo(MaxLines, BindingLines) : interpret(line)) \/ Run

SpecBinding == Init /\ [][NextBinding]_vars

(***************************************************************************)
(* C26.  Compiled code is bound at compile time: whatever names have been  *)
(* redefined since, the fetch loop executes a cell that was compiled as a  *)
(* call as a call of the entry found when it was compiled, the cell that   *)
(* IF compiled as a conditional branch and the cell that ELSE compiled as  *)
(* an unconditional branch.                                                *)
(***************************************************************************)
C26_BoundStep ==
    (pc = "execute" /\ running /\ frames[Len(frames)].i < code_idx) =>
        LET i == frames[Len(frames)].i
        IN  /\ Tag(i) = "call" =>
                  /\ code_space[i] = Some(origin[i + 1][2])
                  /\ fetched' # None /\ Val(fetched').at = i
                  /\ Val(fetched').kind = "call"
            /\ Tag(i) = "0branch" =>
                  /\ fetched' # None /\ Val(fetched').at = i
                  /\ Val(fetched').kind = "0branch"
            /\ Tag(i) = "branch" =>
                  /\ fetched' # None /\ Val(fetched').at = i
                  /\ Val(fetched').kind = "branch"

C26_BoundAtCompileTime == [][C26_BoundStep]_vars

=============================================================================
